---- MODULE Spec2Model ----
(***************************************************************************)
(* A model of the air-quality monitor: the Station Directory and its two   *)
(* ingestion functions, the subscription store with its preference         *)
(* commands, and the threshold alert job with its per-preference cooldown. *)
(*                                                                         *)
(* Optional values (Python None, SQL NULL, a missing row) are sequences of *)
(* length 0 or 1: None == <<>> and Some(x) == <<x>>.                       *)
(* Time is counted in ticks of one hour.                                   *)
(***************************************************************************)
EXTENDS Integers, Sequences, FiniteSets, TLC

None == <<>>

Some(x) == <<x>>

Val(o) == o[1]

\* ------------------------------------------------------------------ bounds

\* The clock runs from 0 to MaxTime ticks.
MaxTime == 2

\* timedelta(hours=1), in ticks of one hour.
COOLDOWN_WINDOW == 1

\* LineUser.default_threshold and LineUserStationPreference.threshold_value
\* default (100 in the source), on the model's AQI scale 0..2.
DEFAULT_THRESHOLD == 2

\* Recipients (LineUser.line_user_id).
Users == {"u1", "u2"}

\* Site codes the provider may report (Station.site_id); a Preference refers
\* to its station by this code, which stands for the row's stations.id.
Sites == {"A", "B"}

\* Thresholds a preferences form may submit.
FormThresholds == {1, 2}

Pairs == Users \X Sites

Times == 0..MaxTime

VARIABLES
    stations,     \* committed table stations: site code -> optional row
    users,        \* committed table line_users: user id -> optional row
    prefs,        \* committed table line_user_station_preferences
    now,          \* the wall clock, datetime.now()
    alertPc,      \* position of the alert job: "idle", "loop", "sent"
    alertQueue,   \* preferences the running pass has still to evaluate
    alertSnap,    \* attribute values the pass's session loaded by its query
    alertExpired, \* the pass's session has committed: its objects are expired
    alertDirty,   \* uncommitted last_alert_sent_at writes of the pass's session
    alertFails,   \* deliveries that failed in the running pass, each with
                  \* the last_alert_sent_at the pass read for the preference
    alertEv,      \* what the last step of the alert job did (its log lines)
    hist,         \* per pair: the last delivered notification and what happened since
    ingestEv,     \* what the last ingestion run did (its log lines)
    lastRefresh,  \* the provider data of the station refresh that ran last
    booted,       \* init_db has run
    jobRuns,      \* per scheduled job: its invocations that are running
    jobHung,      \* per scheduled job: its running invocations that wait in
                  \* a call which has no deadline and will get no answer
    schedEv,      \* what the scheduler or a job invocation did last
    lookup,       \* a nearest-station lookup: its input and its result
    cmdEv,        \* the last command handled, with the tables before and
                  \* after it; None where no record of commands is kept
    refreshing,   \* the provider answer that a reading refresh has written in
                  \* its session and not yet committed; None when none has
    passInactive  \* the users whose is_subscribed was false when the running
                  \* pass's query ran; None where no record of it is kept

\* The scheduler's registry and the lookup, which the actions of the tables
\* and of the alert pass leave alone.
registry == <<booted, jobRuns, jobHung, schedEv, lookup, refreshing>>

\* The records kept for the properties: they take no part in any decision.
kept == <<cmdEv, passInactive>>

vars == <<stations, users, prefs, now, alertPc, alertQueue, alertSnap,
          alertExpired, alertDirty, alertFails, alertEv, hist, ingestEv,
          lastRefresh, booted, jobRuns, jobHung, schedEv, lookup, cmdEv,
          refreshing, passInactive>>

\* ------------------------------------------------- provider data, parsing

\* A provider string that the code converts to a number is a sequence of
\* characters; names, codes and status labels are whole strings.
Digits == <<"0", "1", "2", "3", "4", "5", "6", "7", "8", "9">>

IsDigit(c) == \E i \in 1..10 : Digits[i] = c

DigitVal(c) == (CHOOSE i \in 1..10 : Digits[i] = c) - 1

RECURSIVE NatVal(_)
NatVal(s) ==
    IF s = <<>> THEN 0
    ELSE 10 * NatVal(SubSeq(s, 1, Len(s) - 1)) + DigitVal(s[Len(s)])

AllDigits(s) == Len(s) > 0 /\ \A i \in 1..Len(s) : IsDigit(s[i])

\* The literals int() accepts among the strings the provider sends: an
\* optional sign and one or more decimal digits.
IsIntLiteral(s) ==
    /\ Len(s) > 0
    /\ IF s[1] \in {"-", "+"} THEN AllDigits(Tail(s)) ELSE AllDigits(s)

IntOf(s) ==
    IF s[1] = "-" THEN 0 - NatVal(Tail(s))
    ELSE IF s[1] = "+" THEN NatVal(Tail(s))
    ELSE NatVal(s)

\* Python truth of an optional character string: None and "" are false.
Truthy(v) == v /= None /\ Val(v) /= <<>>

\* Python truth of an optional name: None and "" are false.
TruthyName(v) == v /= None /\ Val(v) /= ""

\* A conversion that stores 0 for a string that is no number.
safe_int_conversion_zero(value) ==
    IF ~Truthy(value) THEN None
    ELSE IF IsIntLiteral(Val(value)) THEN Some(IntOf(Val(value)))
    ELSE Some(0)

\* safe_int_conversion: int(value) if value else None; ValueError gives None.
safe_int_conversion(value) ==
    IF ~Truthy(value) THEN None
    ELSE IF IsIntLiteral(Val(value)) THEN Some(IntOf(Val(value)))
    ELSE None

\* float(x) raises ValueError on a string that is no number.  Coordinates
\* are taken in whole degrees, so the literals are those of int().
FloatRaises(v) == Truthy(v) /\ ~IsIntLiteral(Val(v))

\* float(record.get(k)) if record.get(k) else None, where float() returns.
FloatOrNone(v) == IF Truthy(v) THEN Some(IntOf(Val(v))) ELSE None

\* The layout datetime.strptime is given for publishtime.
PUBLISH_TIME_FORMAT == "%Y/%m/%d %H:%M:%S"

\* A provider timestamp is the layout it is written in and the instant it
\* names (the empty string has layout ""); strptime raises ValueError, which
\* the code catches, on any layout but its own.
ParsePublishTime(v) ==
    IF v = None \/ Val(v).layout = "" THEN None
    ELSE IF Val(v).layout = PUBLISH_TIME_FORMAT THEN Some(Val(v).at)
    ELSE None

\* COUNTY_TO_REGION, county names transliterated.
COUNTY_TO_REGION ==
    [c \in {"Keelung", "Taipei", "NewTaipei", "Taoyuan", "HsinchuCity",
            "HsinchuCounty", "Miaoli"} |-> "North"] @@
    [c \in {"Taichung", "Changhua", "Nantou", "Yunlin"} |-> "Central"] @@
    [c \in {"ChiayiCity", "ChiayiCounty", "Tainan", "Kaohsiung", "Pingtung"}
        |-> "South"] @@
    [c \in {"Yilan", "Hualien", "Taitung"} |-> "East"] @@
    [c \in {"Penghu", "Kinmen", "Lienchiang"} |-> "Outlying"]

\* COUNTY_TO_REGION.get(county, "unknown region")
RegionOf(county) ==
    IF county /= None /\ Val(county) \in DOMAIN COUNTY_TO_REGION
    THEN COUNTY_TO_REGION[Val(county)]
    ELSE "UnknownRegion"

\* ------------------------------------------------------ Station Directory

\* An insert that leaves the coordinates out.
NewStationWithoutCoordinates(name, county, latitude, longitude, region) ==
    [name |-> name, county |-> county, latitude |-> None,
     longitude |-> None, region |-> region,
     aqi |-> None, status |-> None, pm25 |-> None, pm10 |-> None,
     publish_time |-> None]

\* A row of table stations (models.Station) without its keys.
NewStation(name, county, latitude, longitude, region) ==
    [name |-> name, county |-> county, latitude |-> latitude,
     longitude |-> longitude, region |-> region,
     aqi |-> None, status |-> None, pm25 |-> None, pm10 |-> None,
     publish_time |-> None]

SiteCodes(dir) == {s \in Sites : dir[s] /= None}

\* A record that is stored as a new row without looking for its site code.
StationRecordInsertsAlways(dir, site) == TRUE

\* Station.query.filter_by(site_id=site_id).first() finds no row.  The query
\* flushes the session first, so dir is the session's view: the committed
\* rows and those the batch has added so far.
StationRecordInserts(dir, site) == dir[site] = None

\* An existing row written anew from the record, as an added one is.
UpdatedStationAnew(row, name, county, latitude, longitude, region) ==
    NewStation(name, county, latitude, longitude, region)

\* The else branch of the loop: the five assignments to existing_station.
UpdatedStation(row, name, county, latitude, longitude, region) ==
    [row EXCEPT !.name = name, !.county = county, !.latitude = latitude,
                !.longitude = longitude, !.region = region]

\* One record of fetch_and_store_all_stations' loop on the session's view
\* acc.dir.  acc.err: an exception left the loop, or will leave the flush
\* (float() on a string that is no number; county NULL in a row to write).
\* acc.inserted: the site codes of the rows the batch has added, in order.

StoreStationRecord(acc, record) ==
    IF acc.err THEN acc
    ELSE IF FloatRaises(record.twd97lat) \/ FloatRaises(record.twd97lon)
    THEN [acc EXCEPT !.err = TRUE]
    ELSE IF ~(TruthyName(record.siteid) /\ TruthyName(record.sitename))
    THEN acc
    ELSE IF record.county = None
    THEN [acc EXCEPT !.err = TRUE]
    ELSE LET site      == Val(record.siteid)
             latitude  == FloatOrNone(record.twd97lat)
             longitude == FloatOrNone(record.twd97lon)
             region    == RegionOf(record.county)
         IN  IF StationRecordInserts(acc.dir, site)
             THEN [acc EXCEPT
                     !.dir[site] = Some(NewStation(Val(record.sitename),
                                        Val(record.county), latitude,
                                        longitude, region)),
                     !.created = @ + 1,
                     !.inserted = Append(@, site)]
             ELSE [acc EXCEPT
                     !.dir[site] = Some(UpdatedStation(Val(acc.dir[site]),
                                        Val(record.sitename),
                                        Val(record.county), latitude,
                                        longitude, region)),
                     !.updated = @ + 1]

RECURSIVE StoreStationRecords(_, _)
StoreStationRecords(acc, records) ==
    IF records = <<>> THEN acc
    ELSE StoreStationRecords(StoreStationRecord(acc, Head(records)),
                             Tail(records))

\* The session of fetch_and_store_all_stations when its loop is left.
StationRefreshSession(dir, resp) ==
    StoreStationRecords([dir |-> dir, err |-> FALSE, created |-> 0,
                         updated |-> 0, inserted |-> <<>>],
                        IF resp.kind = "records" THEN resp.records ELSE <<>>)

\* A station refresh that commits what its loop stored before an exception.
StationsAfterPartialRefresh(dir, resp, dbOk) ==
    IF resp.kind /= "records" \/ ~dbOk THEN dir
    ELSE StationRefreshSession(dir, resp).dir

\* fetch_and_store_all_stations: the directory it leaves committed.  resp is
\* the provider's answer, dbOk whether the store accepts the commit.
StationsAfterRefresh(dir, resp, dbOk) ==
    IF resp.kind /= "records" THEN dir
    ELSE LET acc == StationRefreshSession(dir, resp)
         IN  IF acc.err \/ ~dbOk THEN dir ELSE acc.dir

\* fetch_and_store_all_stations ends in one of its except branches: the
\* request or the decoding of its answer failed, an exception left the loop,
\* or the commit was refused.
StationRefreshFails(dir, resp, dbOk) ==
    \/ resp.kind = "error"
    \/ resp.kind = "records"
        /\ (StationRefreshSession(dir, resp).err \/ ~dbOk)

\* An unmatched reading stored as a new station.
UnmatchedReadingInserts(dir, site, reading) ==
    [dir EXCEPT ![site] =
        Some([name |-> site, county |-> "", latitude |-> None,
              longitude |-> None, region |-> "UnknownRegion",
              aqi |-> reading.aqi, status |-> reading.status,
              pm25 |-> reading.pm25, pm10 |-> reading.pm10,
              publish_time |-> reading.publish_time])]

\* What fetch_and_store_realtime_aqi does with a record whose site code
\* matches no station: it logs a warning and leaves the session alone.
UnmatchedReading(dir, site, reading) == dir

\* A loop body that writes only the fields the record has a value for.
StoreReadingRecordFieldwise(dir, record) ==
    LET aqi          == safe_int_conversion(record.aqi)
        pm25         == safe_int_conversion(record.pm25)
        pm10         == safe_int_conversion(record.pm10)
        publish_time == ParsePublishTime(record.publishtime)
        Kept(new, old) == IF new = None THEN old ELSE new
    IN  IF ~TruthyName(record.siteid) THEN dir
        ELSE LET site == Val(record.siteid)
             IN  IF dir[site] /= None
                 THEN [dir EXCEPT ![site] = Some([Val(dir[site]) EXCEPT
                                        !.aqi = Kept(aqi, @),
                                        !.status = Kept(record.status, @),
                                        !.pm25 = Kept(pm25, @),
                                        !.pm10 = Kept(pm10, @),
                                        !.publish_time = Kept(publish_time, @)])]
                 ELSE dir

\* One record of fetch_and_store_realtime_aqi's loop.
StoreReadingRecord(dir, record) ==
    LET aqi          == safe_int_conversion(record.aqi)
        status       == record.status
        pm25         == safe_int_conversion(record.pm25)
        pm10         == safe_int_conversion(record.pm10)
        publish_time == ParsePublishTime(record.publishtime)
        reading      == [aqi |-> aqi, status |-> status, pm25 |-> pm25,
                         pm10 |-> pm10, publish_time |-> publish_time]
    IN  IF ~TruthyName(record.siteid) THEN dir
        ELSE LET site == Val(record.siteid)
             IN  IF dir[site] /= None
                 THEN [dir EXCEPT ![site] = Some([Val(dir[site]) EXCEPT
                                        !.aqi = aqi,
                                        !.status = status,
                                        !.pm25 = pm25,
                                        !.pm10 = pm10,
                                        !.publish_time = publish_time])]
                 ELSE UnmatchedReading(dir, site, reading)

RECURSIVE StoreReadingRecords(_, _)
StoreReadingRecords(dir, records) ==
    IF records = <<>> THEN dir
    ELSE StoreReadingRecords(StoreReadingRecord(dir, Head(records)),
                             Tail(records))

\* fetch_and_store_realtime_aqi: the directory it leaves committed.
StationsAfterReadings(dir, resp, dbOk) ==
    IF resp.kind /= "records" \/ ~dbOk THEN dir
    ELSE StoreReadingRecords(dir, resp.records)

\* fetch_and_store_realtime_aqi ends in one of its except branches: the
\* request or the decoding of its answer failed, or the commit was refused.
ReadingRefreshFails(resp, dbOk) ==
    \/ resp.kind = "error"
    \/ resp.kind = "records" /\ ~dbOk

\* ----------------------------------------------------- subscription store

\* A row of table line_users (models.LineUser) without its keys.
NewLineUser(default_threshold) ==
    [is_subscribed |-> TRUE, default_threshold |-> default_threshold]

\* A row of table line_user_station_preferences without its keys.
NewPreference(threshold_value) ==
    [threshold_value |-> threshold_value, last_alert_sent_at |-> None]

\* hist[p], the last notification delivered for pair p: when it was sent;
\* kept, its timestamp was committed and the row that holds it has not been
\* deleted since; edited, a command has changed that row's threshold since;
\* pass, whether the pass that sent it is "running", is "over" or "crashed";
\* failed, a delivery for p has failed since (when none was ever delivered:
\* a delivery for p has failed).
NoHist == [sentAt |-> None, kept |-> FALSE, edited |-> FALSE, pass |-> "over",
           failed |-> FALSE]

Notified(t) == [sentAt |-> Some(t), kept |-> FALSE, edited |-> FALSE,
                pass |-> "running", failed |-> FALSE]

\* The running pass has ended, by its return or by an exception.
PassOver(h) ==
    [p \in Pairs |->
        IF h[p].pass = "running" THEN [h[p] EXCEPT !.pass = "over"] ELSE h[p]]

\* The process has stopped while the pass was running.
PassCrashed(h) ==
    [p \in Pairs |->
        IF h[p].pass = "running" THEN [h[p] EXCEPT !.pass = "crashed"]
        ELSE h[p]]

NoEv == [kind |-> "none"]

\* The comparison written with > in place of >=.
ExceedsStrictly(aqi, threshold) == aqi /= None /\ Val(aqi) > threshold

\* aqi is not None and aqi >= threshold
ExceedsThreshold(aqi, threshold) == aqi /= None /\ Val(aqi) >= threshold

\* The cooldown test left out.
CooldownIgnored(last_alert_sent_at, t) == TRUE

\* The cooldown test without its None case.
CooldownNeedsTimestamp(last_alert_sent_at, t) ==
    /\ last_alert_sent_at /= None
    /\ t - Val(last_alert_sent_at) > COOLDOWN_WINDOW

\* The cooldown test written with >= in place of >.
CooldownElapsedAtWindow(last_alert_sent_at, t) ==
    \/ last_alert_sent_at = None
    \/ t - Val(last_alert_sent_at) >= COOLDOWN_WINDOW

\* time_since_last_alert is None or time_since_last_alert > timedelta(hours=1)
CooldownElapsed(last_alert_sent_at, t) ==
    \/ last_alert_sent_at = None
    \/ t - Val(last_alert_sent_at) > COOLDOWN_WINDOW

\* hist once an action has left the preference table ps at time t.  A
\* notification is remembered for COOLDOWN_WINDOW.
Track(h, ps, t) ==
    [p \in Pairs |->
        IF h[p].sentAt = None THEN h[p]
        ELSE IF t - Val(h[p].sentAt) >= COOLDOWN_WINDOW
        THEN [NoHist EXCEPT !.failed = h[p].failed]
        ELSE [h[p] EXCEPT
                !.kept = @ /\ ~(prefs[p] /= None /\ ps[p] = None),
                !.edited = @ \/ (prefs[p] /= None /\ ps[p] /= None
                                 /\ ps[p] /= prefs[p])]]

\* The three committed tables together.
Tables == [stations |-> stations, users |-> users, prefs |-> prefs]

\* The command just handled, kept where a record of commands is kept.
Logged(kind, u, arg) ==
    cmdEv' = IF cmdEv = None THEN None
             ELSE Some([kind |-> kind, user |-> u, arg |-> arg,
                        before |-> Tables, after |-> Tables'])

IdleAlert ==
    /\ alertPc' = alertPc
    /\ alertQueue' = alertQueue
    /\ alertSnap' = alertSnap
    /\ alertExpired' = alertExpired
    /\ alertDirty' = alertDirty
    /\ alertFails' = alertFails
    /\ alertEv' = NoEv
    /\ ingestEv' = NoEv
    /\ lastRefresh' = lastRefresh
    /\ UNCHANGED <<registry, passInactive>>

\* A kept row whose timestamp is cleared when its threshold is set.
KeptPreferenceCleared(row, threshold_value) ==
    [row EXCEPT !.threshold_value = threshold_value,
                !.last_alert_sent_at = None]

\* A kept row written anew, as an added one is.
KeptPreferenceReset(row, threshold_value) == NewPreference(threshold_value)

\* The rows of user u after the preferences form's second commit: rows of
\* stations no longer selected are deleted, new selections are added with
\* the submitted threshold, kept ones get the submitted threshold.
KeptPreference(row, threshold_value) ==
    [row EXCEPT !.threshold_value = threshold_value]

\* The bulk delete without its filter: every user's rows go.
PreferencesClearedForAll(ps, u) == [p \in Pairs |-> None]

\* LineUserStationPreference.query.filter_by(line_user_id=u).delete()
PreferencesCleared(ps, u) ==
    [p \in Pairs |-> IF p[1] = u THEN None ELSE ps[p]]

\* A selected id that is no station's made a station.
StationsAfterPostCreated(dir, station_ids) ==
    [s \in Sites |->
        IF dir[s] = None /\ s \in station_ids
        THEN Some(NewStation(s, s, None, None, "Unknown"))
        ELSE dir[s]]

\* The stations table after the preferences form: the handler adds and
\* deletes rows of line_user_station_preferences and sets two fields of the
\* LineUser; stations are read, to render the page, and never written.
StationsAfterPost(dir, station_ids) == dir

\* The rows after a submission that adds and updates and never deletes.
PreferencesAfterPostMerged(ps, u, station_ids, threshold_value) ==
    [p \in Pairs |->
        IF p[1] /= u \/ p[2] \notin station_ids THEN ps[p]
        ELSE IF ps[p] = None THEN Some(NewPreference(threshold_value))
        ELSE Some(KeptPreference(Val(ps[p]), threshold_value))]

PreferencesAfterPost(ps, u, station_ids, threshold_value) ==
    [p \in Pairs |->
        IF p[1] /= u THEN ps[p]
        ELSE IF p[2] \notin station_ids THEN None
        ELSE IF ps[p] = None THEN Some(NewPreference(threshold_value))
        ELSE Some(KeptPreference(Val(ps[p]), threshold_value))]

\* preferences(), POST.  u is the session's line_user_id (a user who has
\* logged in), station_ids the form's selection, threshold_value its
\* threshold.  An empty selection deletes every Preference of u.  Otherwise
\* the LineUser is committed first; a selected id that is no station's makes
\* the second commit fail on the foreign key and that part is rolled back.
PreferencesPost(u, station_ids, threshold_value) ==
    /\ users[u] /= None
    /\ IF station_ids = {}
       THEN /\ prefs' = PreferencesCleared(prefs, u)
            /\ users' = users
       ELSE /\ users' = [users EXCEPT ![u] =
                            IF users[u] = None
                            THEN Some(NewLineUser(threshold_value))
                            ELSE Some([Val(users[u]) EXCEPT
                                    !.default_threshold = threshold_value,
                                    !.is_subscribed = TRUE])]
            /\ prefs' = IF station_ids \subseteq SiteCodes(stations)
                        THEN PreferencesAfterPost(prefs, u, station_ids,
                                                  threshold_value)
                        ELSE prefs
    /\ stations' = StationsAfterPost(stations, station_ids)
    /\ hist' = Track(hist, prefs', now)
    /\ IdleAlert
    /\ UNCHANGED now
    /\ Logged("preferences", u, [station_ids |-> station_ids,
                                 threshold_value |-> threshold_value])

\* handle_follow
handle_follow(u) ==
    /\ users' = [users EXCEPT ![u] =
                    IF users[u] = None
                    THEN Some(NewLineUser(DEFAULT_THRESHOLD))
                    ELSE Some([Val(users[u]) EXCEPT !.is_subscribed = TRUE])]
    /\ users' /= users
    /\ hist' = hist
    /\ IdleAlert
    /\ UNCHANGED <<stations, prefs, now>>
    /\ Logged("follow", u, None)

\* handle_unfollow_event
handle_unfollow_event(u) ==
    /\ users[u] /= None
    /\ Val(users[u]).is_subscribed
    /\ users' = [users EXCEPT ![u] =
                    Some([Val(users[u]) EXCEPT !.is_subscribed = FALSE])]
    /\ hist' = hist
    /\ IdleAlert
    /\ UNCHANGED <<stations, prefs, now>>
    /\ Logged("unfollow", u, None)

\* handle_text_message with the name of station site as its text: the user
\* is created if unknown, and subscribed with its default threshold unless
\* the Preference exists.
handle_text_message(u, site) ==
    /\ stations[site] /= None
    /\ users' = [users EXCEPT ![u] =
                    IF users[u] = None
                    THEN Some(NewLineUser(DEFAULT_THRESHOLD))
                    ELSE users[u]]
    /\ prefs[<<u, site>>] = None
    /\ prefs' = [prefs EXCEPT ![<<u, site>>] =
                    Some(NewPreference(Val(users'[u]).default_threshold))]
    /\ hist' = Track(hist, prefs', now)
    /\ IdleAlert
    /\ UNCHANGED <<stations, now>>
    /\ Logged("text", u, [site |-> site])

\* ---------------------------------------------------------- the alert job

\* The query without its filter on the user: every Preference.
AllPreferencePairs == {p \in Pairs : prefs[p] /= None}

\* LineUserStationPreference.query.filter(line_user.has(is_subscribed == True))
ActivePairs ==
    {p \in Pairs : /\ prefs[p] /= None
                   /\ users[p[1]] /= None
                   /\ Val(users[p[1]]).is_subscribed}

\* The orders in which a query without ORDER BY may return the rows S.
Orderings(S) ==
    {q \in [1..Cardinality(S) -> S] :
        \A i, j \in 1..Cardinality(S) : q[i] = q[j] => i = j}

NoSnap == [p \in Pairs |-> None]

NoDirty == [p \in Pairs |-> None]

\* The Preference row as the pass's session sees it: the attributes loaded by
\* the pass's query, or, once a commit has expired them, the committed row.
SessionView(p) == IF alertExpired THEN prefs[p] ELSE alertSnap[p]

\* send_line_message without its except clause: a push that raises leaves
\* the function.
send_line_message_raises(up) == IF up THEN "sent" ELSE "raised"

\* send_line_message: "sent" when the push succeeds (it returns True),
\* "failed" when the push raises (the exception is caught, it returns False).
send_line_message(up) == IF up THEN "sent" ELSE "failed"

\* The timestamp written after every attempt, whatever it returned.
RecordsAnyResult(result) == result /= "none"

\* if send_line_message(...): only a True result leads to the timestamp.
RecordsTimestamp(result) == result = "sent"

\* The commit moved out of the loop, to the end of the pass.
CommitAfterLoop == FALSE

\* db.session.commit() follows each assignment of last_alert_sent_at, inside
\* the loop; nothing is committed after the loop.
CommitPerNotification == TRUE

\* The pending timestamp written to every row, whichever Preference it is
\* pending for.
FlushedToAll(ps, dirty) ==
    [p \in Pairs |->
        IF ps[p] /= None /\ \E q \in Pairs : dirty[q] /= None
        THEN Some([Val(ps[p]) EXCEPT !.last_alert_sent_at =
                        dirty[CHOOSE q \in Pairs : dirty[q] /= None]])
        ELSE ps[p]]

\* The session's pending writes applied to the committed rows they match.
Flushed(ps, dirty) ==
    [p \in Pairs |->
        IF dirty[p] /= None /\ ps[p] /= None
        THEN Some([Val(ps[p]) EXCEPT !.last_alert_sent_at = dirty[p]])
        ELSE ps[p]]

\* A pending write whose row is gone: the UPDATE matches no row and the
\* flush raises StaleDataError.
FlushRaises(ps, dirty) == \E p \in Pairs : dirty[p] /= None /\ ps[p] = None

ResetAlert ==
    /\ alertPc' = "idle"
    /\ alertQueue' = <<>>
    /\ alertSnap' = NoSnap
    /\ alertExpired' = FALSE
    /\ alertDirty' = NoDirty
    /\ alertFails' = {}

\* The job is fired: the query selects the pass's work list.
AlertStart ==
    /\ alertPc = "idle"
    /\ \E q \in Orderings(ActivePairs) : alertQueue' = q
    /\ alertSnap' = [p \in Pairs |-> IF p \in ActivePairs THEN prefs[p] ELSE None]
    /\ alertPc' = "loop"
    /\ alertExpired' = FALSE
    /\ alertDirty' = NoDirty
    /\ alertFails' = {}
    /\ alertEv' = NoEv
    /\ passInactive' = IF passInactive = None THEN None
                       ELSE Some({u \in Users : /\ users[u] /= None
                                                /\ ~Val(users[u]).is_subscribed})
    /\ UNCHANGED <<stations, users, prefs, now, hist, ingestEv, lastRefresh,
                   registry, cmdEv>>

\* The station row read through the uncommitted writes of a reading
\* refresh that is in progress.
RefreshedStationUncommitted(site) ==
    IF refreshing = None THEN stations[site]
    ELSE StoreReadingRecords(stations, Val(refreshing).records)[site]

\* db.session.refresh(station): the row is read again in the pass's own
\* transaction, which sees what has been committed and nothing else.
RefreshedStation(site) == stations[site]

\* One iteration of the loop up to and including send_line_message.  up is
\* whether the transport accepts a push now.
AlertEval(up) ==
    /\ alertPc = "loop"
    /\ alertQueue /= <<>>
    /\ LET p    == Head(alertQueue)
           view == SessionView(p)
       IN  IF view = None
           THEN \* the expired row was deleted: ObjectDeletedError ends the job
                /\ ResetAlert
                /\ alertEv' = [kind |-> "error", pair |-> p, at |-> now]
                /\ hist' = PassOver(hist)
           ELSE LET aqi       == Val(RefreshedStation(p[2])).aqi
                    threshold == Val(view).threshold_value
                    last      == Val(view).last_alert_sent_at
                    attempt   == ExceedsThreshold(aqi, threshold)
                                 /\ CooldownElapsed(last, now)
                    result    == IF attempt THEN send_line_message(up)
                                 ELSE "none"
                    ev        == [kind |-> "eval", pair |-> p, at |-> now,
                                  aqi |-> aqi, threshold |-> threshold,
                                  last |-> last, attempt |-> attempt,
                                  delivered |-> attempt /\ up,
                                  result |-> result, before |-> prefs,
                                  prev |-> hist[p], rest |-> Tail(alertQueue),
                                  failsBefore |-> alertFails]
                IN  /\ alertEv' = ev
                    /\ hist' = IF attempt /\ up
                               THEN [hist EXCEPT ![p] = Notified(now)]
                               ELSE IF result = "raised"
                               THEN PassOver([hist EXCEPT ![p].failed = TRUE])
                               ELSE IF attempt
                               THEN [hist EXCEPT ![p].failed = TRUE]
                               ELSE hist
                    /\ IF result = "raised"
                       THEN ResetAlert
                       ELSE /\ alertPc' = IF RecordsTimestamp(result)
                                          THEN "sent" ELSE "loop"
                            /\ alertQueue' = IF RecordsTimestamp(result)
                                             THEN alertQueue
                                             ELSE Tail(alertQueue)
                            /\ alertFails' =
                                    IF attempt /\ ~up
                                    THEN alertFails \cup
                                         {[pair |-> p, last |-> last]}
                                    ELSE alertFails
                            /\ alertSnap' = IF RecordsTimestamp(result)
                                            THEN alertSnap
                                            ELSE [alertSnap EXCEPT ![p] = None]
                            /\ UNCHANGED <<alertExpired, alertDirty>>
    /\ (~up => alertEv'.kind = "eval" /\ alertEv'.attempt)
    /\ UNCHANGED <<stations, users, prefs, now, ingestEv, lastRefresh,
                   registry, kept>>

\* pref.last_alert_sent_at = datetime.now(); db.session.commit().  dbOk is
\* whether the store accepts the commit; a commit that raises ends the job
\* (the exception leaves the function) and the session's writes are lost.
AlertRecord(dbOk) ==
    /\ alertPc = "sent"
    /\ LET p     == Head(alertQueue)
           dirty == [alertDirty EXCEPT ![p] = Some(now)]
           ok    == dbOk /\ ~(CommitPerNotification /\ FlushRaises(prefs, dirty))
       IN  /\ alertEv' = [kind |-> "record", pair |-> p, at |-> now,
                          ok |-> ok, before |-> prefs,
                          rest |-> Tail(alertQueue),
                          failsBefore |-> alertFails]
           /\ IF ok
              THEN /\ prefs' = IF CommitPerNotification
                               THEN Flushed(prefs, dirty) ELSE prefs
                   /\ alertDirty' = IF CommitPerNotification
                                    THEN NoDirty ELSE dirty
                   /\ alertExpired' = (alertExpired \/ CommitPerNotification)
                   /\ alertSnap' = IF CommitPerNotification
                                   THEN NoSnap
                                   ELSE [alertSnap EXCEPT ![p] = None]
                   /\ alertPc' = "loop"
                   /\ alertQueue' = Tail(alertQueue)
                   /\ alertFails' = alertFails
                   /\ hist' = [hist EXCEPT ![p].kept = TRUE]
              ELSE /\ prefs' = prefs
                   /\ ResetAlert
                   /\ hist' = PassOver(hist)
    /\ UNCHANGED <<stations, users, now, ingestEv, lastRefresh, registry,
                   kept>>

\* The loop is over: the job logs its count and its session is removed.
AlertEnd ==
    /\ alertPc = "loop"
    /\ alertQueue = <<>>
    /\ prefs' = IF ~CommitPerNotification /\ ~FlushRaises(prefs, alertDirty)
                THEN Flushed(prefs, alertDirty) ELSE prefs
    /\ ResetAlert
    /\ alertEv' = NoEv
    /\ hist' = PassOver(hist)
    /\ UNCHANGED <<stations, users, now, ingestEv, lastRefresh, registry,
                   kept>>

\* The process stops at any point and is started again: the committed tables
\* stay, every session and the running job are gone.
Crash ==
    /\ ResetAlert
    /\ alertEv' = NoEv
    /\ hist' = PassCrashed(hist)
    /\ UNCHANGED <<stations, users, prefs, now, ingestEv, lastRefresh,
                   registry, kept>>

Tick ==
    /\ now < MaxTime
    /\ now' = now + 1
    /\ hist' = Track(hist, prefs, now')
    /\ IdleAlert
    /\ UNCHANGED <<stations, users, prefs, cmdEv>>

\* ------------------------------------------------------ ingestion actions

\* What an ingestion run that has committed or rolled back leaves alone; no
\* refresh is in progress after it.
IdleStore ==
    /\ hist' = hist
    /\ alertPc' = alertPc
    /\ alertQueue' = alertQueue
    /\ alertSnap' = alertSnap
    /\ alertExpired' = alertExpired
    /\ alertDirty' = alertDirty
    /\ alertFails' = alertFails
    /\ alertEv' = NoEv
    /\ refreshing' = None
    /\ UNCHANGED <<users, prefs, now, booted, jobRuns, jobHung, schedEv,
                   lookup, kept>>

\* fetch_and_store_all_stations on the provider's answer resp.
fetch_and_store_all_stations(resp, dbOk) ==
    /\ stations' = StationsAfterRefresh(stations, resp, dbOk)
    /\ ingestEv' = [kind |-> "stations", resp |-> resp, dbOk |-> dbOk,
                    before |-> stations,
                    repeat |-> lastRefresh = Some(resp),
                    failed |-> StationRefreshFails(stations, resp, dbOk),
                    inserted |-> StationRefreshSession(stations, resp).inserted]
    /\ lastRefresh' = IF dbOk THEN Some(resp) ELSE None
    /\ IdleStore

\* fetch_and_store_realtime_aqi on the provider's answer resp; log: whether
\* the run's log lines are kept in ingestEv.
fetch_and_store_realtime_aqi(resp, dbOk, log) ==
    /\ stations' = StationsAfterReadings(stations, resp, dbOk)
    /\ ingestEv' = IF log
                   THEN [kind |-> "readings", resp |-> resp, dbOk |-> dbOk,
                         before |-> stations,
                         failed |-> ReadingRefreshFails(resp, dbOk)]
                   ELSE NoEv
    /\ lastRefresh' = None
    /\ IdleStore

\* ------------------------------------------------------- provider answers

MaxBatch == 2

StationRecord(siteid, sitename, county, lat, lon) ==
    [siteid |-> siteid, sitename |-> sitename, county |-> county,
     twd97lat |-> lat, twd97lon |-> lon]

ReadingRecord(siteid, aqi, status, pm25, pm10, publishtime) ==
    [siteid |-> siteid, aqi |-> aqi, status |-> status, pm25 |-> pm25,
     pm10 |-> pm10, publishtime |-> publishtime]

Stamp(layout, at) == Some([layout |-> layout, at |-> at])

\* Metadata records: well formed ones for both sites, a second version of
\* A's (other name, unknown county, no coordinates), and one whose latitude
\* is no number.
StationRecords ==
    { StationRecord(Some("A"), Some("Wanhua"), Some("Taipei"),
                    Some(<<"2", "5">>), Some(<<"1", "2", "1">>)),
      StationRecord(Some("A"), Some("Wanhua West"), Some("Atlantis"),
                    Some(<<>>), None),
      StationRecord(Some("B"), Some("Zuoying"), Some("Kaohsiung"),
                    Some(<<"2", "2">>), Some(<<"1", "2", "0">>)),
      StationRecord(Some("B"), Some("Zuoying"), Some("Kaohsiung"),
                    Some(<<"n", "/", "a">>), Some(<<"1", "2", "0">>)) }

\* Reading records: a well formed one for site A; one for A whose AQI is
\* empty, whose PM2.5 is no number and whose timestamp is in another layout,
\* with a status and a PM10; one for site B without a PM2.5; one without a
\* site code.
ReadingRecords ==
    { ReadingRecord(Some("A"), Some(<<"1">>), Some("Good"), Some(<<"7">>),
                    Some(<<"1", "2">>), Stamp(PUBLISH_TIME_FORMAT, 1)),
      ReadingRecord(Some("A"), Some(<<>>), Some("Unhealthy"),
                    Some(<<"N", "D">>), Some(<<"3">>),
                    Stamp("%Y-%m-%d %H:%M", 2)),
      ReadingRecord(Some("B"), Some(<<"2">>), Some("Moderate"), None,
                    Some(<<"-", "1">>), Stamp(PUBLISH_TIME_FORMAT, 2)),
      ReadingRecord(None, Some(<<"2">>), Some("Good"), None, None, None) }

\* The batches of up to MaxBatch records of S, each record listed once.
Batches(S) ==
    UNION {{b \in [1..n -> S] : \A i, j \in 1..n : b[i] = b[j] => i = j}
           : n \in 0..MaxBatch}

Answers(S) ==
    {[kind |-> "error", records |-> <<>>], [kind |-> "nokey", records |-> <<>>]}
    \cup {[kind |-> "records", records |-> b] : b \in Batches(S)}

\* What the readings endpoint answers while the alert job is studied: one
\* record for station A whose AQI is empty, 1 or 2.
AlertFeed ==
    {[kind |-> "records", records |->
        <<ReadingRecord(Some("A"), Some(aqi), Some("Good"), None, None, None)>>]
     : aqi \in {<<>>, <<"1">>, <<"2">>}}

\* --------------------------------------------------------- specifications

\* The ids of the functions registered with @scheduler.task.
JobIds == {"fetch_aqi_data_job", "send_personalized_aqi_push_job",
           "send_personalized_aqi_alerts"}

NoLookup == [state |-> "none"]

\* The scheduler has been started, no job has fired, init_db has not run.
InitRegistry ==
    /\ refreshing = None
    /\ booted = FALSE
    /\ jobRuns = [j \in JobIds |-> 0]
    /\ jobHung = [j \in JobIds |-> 0]
    /\ schedEv = NoEv

\* No alert pass is running, no ingestion run has been logged.
InitJobState ==
    /\ now = 0
    /\ alertPc = "idle"
    /\ alertQueue = <<>>
    /\ alertSnap = NoSnap
    /\ alertExpired = FALSE
    /\ alertDirty = NoDirty
    /\ alertFails = {}
    /\ alertEv = NoEv
    /\ hist = [p \in Pairs |-> NoHist]
    /\ ingestEv = NoEv
    /\ lastRefresh = None

\* No record of the commands and of the inactive users is kept.
InitNoRecords ==
    /\ cmdEv = None
    /\ passInactive = None

\* Both records are kept.
InitRecords ==
    /\ cmdEv = Some(NoEv)
    /\ passInactive = Some({})

InitJobs ==
    /\ InitJobState
    /\ InitRegistry
    /\ InitNoRecords
    /\ lookup = NoLookup

\* A fresh database: db.create_all() has made the empty tables.
InitIngest ==
    /\ stations = [s \in Sites |-> None]
    /\ users = [u \in Users |-> None]
    /\ prefs = [p \in Pairs |-> None]
    /\ InitJobs

RefreshStations ==
    \E resp \in Answers(StationRecords), dbOk \in BOOLEAN :
        fetch_and_store_all_stations(resp, dbOk)

RefreshReadings ==
    \E resp \in Answers(ReadingRecords), dbOk \in BOOLEAN :
        fetch_and_store_realtime_aqi(resp, dbOk, TRUE)

NextIngest == RefreshStations \/ RefreshReadings

SpecIngest == InitIngest /\ [][NextIngest]_vars

\* Station A as init_db's first fill stores it, with the AQI of its reading.
StationA(aqi) ==
    [NewStation("Wanhua", "Taipei", Some(25), Some(121), "North")
        EXCEPT !.aqi = aqi]

\* Both users have logged in; choice[u] is 0 when u has submitted no
\* preferences yet, else the threshold u has submitted for station A.
Subscribed(choice) ==
    /\ users = [u \in Users |->
                   Some(NewLineUser(IF choice[u] = 0 THEN DEFAULT_THRESHOLD
                                    ELSE choice[u]))]
    /\ prefs = [p \in Pairs |->
                   IF p[2] = "A" /\ choice[p[1]] /= 0
                   THEN Some(NewPreference(choice[p[1]]))
                   ELSE None]

\* The alert job on a fixed set of subscriptions: the database after
\* init_db's first fill when the provider knows station A and has no reading
\* for it, both users logged in, each with or without a Preference for A.
Init ==
    /\ stations = [s \in Sites |-> IF s = "A" THEN Some(StationA(None)) ELSE None]
    /\ \E choice \in [Users -> {0} \cup FormThresholds] : Subscribed(choice)
    /\ InitJobs

FeedReadings ==
    \E resp \in AlertFeed :
        /\ fetch_and_store_realtime_aqi(resp, TRUE, FALSE)
        /\ stations' /= stations

Follow == \E u \in Users : handle_follow(u)

Unfollow == \E u \in Users : handle_unfollow_event(u)

AlertStep == \E up \in BOOLEAN : AlertEval(up)

AlertCommit == \E dbOk \in BOOLEAN : AlertRecord(dbOk)

Next ==
    \/ Tick
    \/ FeedReadings
    \/ Follow
    \/ Unfollow
    \/ AlertStart
    \/ AlertStep
    \/ AlertCommit
    \/ AlertEnd
    \/ Crash

Spec == Init /\ [][Next]_vars

\* ------------------------------------------------ properties of the alert job

\* The step the alert job took last was an evaluation of a Preference.
Evaluated == alertEv.kind = "eval"

\* The step the alert job took last was a commit after a delivery.
Recorded == alertEv.kind = "record"

\* C1 - Cooldown monotonicity: when a pass attempts a notification for a
\* Preference whose last_alert_sent_at is T, in the pass's view or in the
\* committed row, the time is at least T + COOLDOWN_WINDOW.
C1_CooldownMonotonicity ==
    (Evaluated /\ alertEv.attempt) =>
        LET row == alertEv.before[alertEv.pair]
        IN  /\ alertEv.last /= None =>
                alertEv.at >= Val(alertEv.last) + COOLDOWN_WINDOW
            /\ (row /= None /\ Val(row).last_alert_sent_at /= None) =>
                alertEv.at >= Val(Val(row).last_alert_sent_at) + COOLDOWN_WINDOW

\* A pass evaluates a Preference notified less than COOLDOWN_WINDOW ago whose
\* station still exceeds the threshold, and does not notify.
C1_Witness ==
    /\ Evaluated
    /\ alertEv.last /= None
    /\ alertEv.at < Val(alertEv.last) + COOLDOWN_WINDOW
    /\ ExceedsThreshold(alertEv.aqi, alertEv.threshold)
    /\ ~alertEv.attempt

\* No cooldown is in effect for the evaluated Preference: it was never
\* notified, or longer than COOLDOWN_WINDOW ago.
NoCooldown ==
    \/ alertEv.last = None
    \/ alertEv.at - Val(alertEv.last) > COOLDOWN_WINDOW

C3_CooldownExpiryAsClaimed ==
    (Evaluated /\ ExceedsThreshold(alertEv.aqi, alertEv.threshold)) =>
        (alertEv.attempt <=>
            \/ alertEv.last = None
            \/ alertEv.at - Val(alertEv.last) >= COOLDOWN_WINDOW)

\* C3 - Cooldown expiry: with the AQI at or above the threshold, the pass
\* skips exactly when last_alert_sent_at is set and at most COOLDOWN_WINDOW
\* has passed since; it attempts when last_alert_sent_at is null or more than
\* COOLDOWN_WINDOW has passed.
C3_CooldownExpiry ==
    (Evaluated /\ ExceedsThreshold(alertEv.aqi, alertEv.threshold)) =>
        (alertEv.attempt <=>
            \/ alertEv.last = None
            \/ alertEv.at - Val(alertEv.last) > COOLDOWN_WINDOW)

\* A Preference notified exactly COOLDOWN_WINDOW ago, its station still at or
\* above the threshold, is evaluated and skipped.
C3_Witness ==
    /\ Evaluated
    /\ ExceedsThreshold(alertEv.aqi, alertEv.threshold)
    /\ alertEv.last /= None
    /\ alertEv.at - Val(alertEv.last) = COOLDOWN_WINDOW
    /\ ~alertEv.attempt

\* C4 - Delivery failure leaves the cooldown state untouched: as long as the
\* pass runs after a failed delivery for a Preference, the committed row has
\* the last_alert_sent_at the pass found.
C4_FailureLeavesTimestamp ==
    \A f \in alertFails :
        /\ prefs[f.pair] /= None
        /\ Val(prefs[f.pair]).last_alert_sent_at = f.last

\* After a failed delivery for a Preference that had been notified before,
\* the same pass has delivered and committed another Preference's timestamp.
C4_Witness ==
    /\ Recorded
    /\ alertEv.ok
    /\ \E f \in alertFails : f.last /= None

\* C5 - Transport failures do not abort the batch: after a failed delivery
\* the pass goes on with the Preferences that remain, as it does after a
\* committed one, and a Preference that passes the AQI, threshold and
\* cooldown checks gets its attempt whatever happened before it in the pass.
C5_FailuresDoNotAbort ==
    /\ (Evaluated /\ alertEv.attempt /\ ~alertEv.delivered) =>
            (alertPc = "loop" /\ alertQueue = alertEv.rest)
    /\ (Recorded /\ alertEv.ok) =>
            (alertPc = "loop" /\ alertQueue = alertEv.rest)
    /\ (Evaluated /\ ExceedsThreshold(alertEv.aqi, alertEv.threshold)
                  /\ CooldownElapsed(alertEv.last, alertEv.at)) =>
            alertEv.attempt

\* A Preference gets its attempt after the delivery for another one has
\* failed in the same pass.
C5_Witness ==
    /\ Evaluated
    /\ alertEv.attempt
    /\ alertEv.failsBefore /= {}

\* C6 as claimed - Immediate persistence: a Preference notified in a pass
\* during which the process then crashed is not notified again less than
\* COOLDOWN_WINDOW later.
C6_NoDuplicateAfterCrashAsClaimed ==
    (Evaluated /\ alertEv.delivered /\ alertEv.prev.sentAt /= None
               /\ alertEv.prev.pass = "crashed") =>
        alertEv.at - Val(alertEv.prev.sentAt) >= COOLDOWN_WINDOW

\* C6 - Immediate persistence: the step of the job that follows a delivery is
\* the commit, which leaves last_alert_sent_at = now in the committed row;
\* and a Preference whose timestamp was committed before the process crashed
\* is not notified again less than COOLDOWN_WINDOW after its notification.
C6_ImmediatePersistence ==
    /\ (Evaluated /\ alertEv.delivered) =>
            (alertPc = "sent" /\ Head(alertQueue) = alertEv.pair)
    /\ (Recorded /\ alertEv.ok) =>
            /\ prefs[alertEv.pair] /= None
            /\ Val(prefs[alertEv.pair]).last_alert_sent_at = Some(alertEv.at)
    /\ (Evaluated /\ alertEv.delivered /\ alertEv.prev.sentAt /= None
                  /\ alertEv.prev.pass = "crashed" /\ alertEv.prev.kept) =>
            alertEv.at - Val(alertEv.prev.sentAt) >= COOLDOWN_WINDOW

\* After a crash in the pass that notified and committed a Preference, a new
\* pass evaluates it within COOLDOWN_WINDOW, its station still at or above the
\* threshold, and skips it.
C6_Witness ==
    /\ Evaluated
    /\ alertEv.prev.sentAt /= None
    /\ alertEv.prev.pass = "crashed"
    /\ alertEv.prev.kept
    /\ ExceedsThreshold(alertEv.aqi, alertEv.threshold)
    /\ ~alertEv.attempt

\* ------------------------------------------------ liveness of the alert job

\* Both users have submitted a Preference for station A, u1 with threshold 1
\* and u2 with threshold 2, and the station has no reading yet.
InitLive ==
    /\ stations = [s \in Sites |-> IF s = "A" THEN Some(StationA(None)) ELSE None]
    /\ Subscribed([u \in Users |-> IF u = "u1" THEN 1 ELSE 2])
    /\ InitJobs

NextLive ==
    \/ Tick
    \/ FeedReadings
    \/ Follow
    \/ Unfollow
    \/ AlertStart
    \/ AlertStep
    \/ AlertCommit
    \/ AlertEnd

\* The scheduler fires the job every hour and a started pass runs to its end
\* (the trigger of send_personalized_aqi_alerts, one instance at a time); a
\* commit is answered, and of commits tried again and again one is accepted.  The
\* process does not stop.
LiveSpec ==
    /\ InitLive
    /\ [][NextLive]_vars
    /\ WF_vars(AlertStart)
    /\ WF_vars(AlertStep)
    /\ WF_vars(AlertEnd)
    /\ SF_vars(AlertRecord(TRUE))

\* The Preference whose notification is awaited.
Awaited == <<"u1", "A">>

\* The awaited Preference exists, its recipient is active and its
\* station's AQI is at or above its threshold.
Exceeding ==
    /\ prefs[Awaited] /= None
    /\ Val(users[Awaited[1]]).is_subscribed
    /\ Val(stations[Awaited[2]]).aqi /= None
    /\ Val(Val(stations[Awaited[2]]).aqi) >= Val(prefs[Awaited]).threshold_value

\* The awaited Preference should be notified: no cooldown holds it back, and
\* the job is not about to commit the timestamp of its notification.
Due ==
    /\ Exceeding
    /\ \/ Val(prefs[Awaited]).last_alert_sent_at = None
       \/ now - Val(Val(prefs[Awaited]).last_alert_sent_at) > COOLDOWN_WINDOW
    /\ ~(alertPc = "sent" /\ Head(alertQueue) = Awaited)

\* The step taken last was no failed delivery for the awaited Preference.
TransportUp ==
    ~(Evaluated /\ alertEv.pair = Awaited /\ alertEv.attempt
                /\ ~alertEv.delivered)

DeliveredToAwaited ==
    Evaluated /\ alertEv.pair = Awaited /\ alertEv.delivered

StationB(aqi) ==
    [NewStation("Zuoying", "Kaohsiung", Some(22), Some(120), "South")
        EXCEPT !.aqi = aqi]

\* The user whose commands are interleaved with the alert job.
Commander == "u1"

\* The alert job interleaved with one user's preference commands while the
\* AQI of stations A and B stays at 2, which no threshold exceeds: the user
\* has logged in and has no Preference yet.
InitCommands ==
    /\ stations = [s \in Sites |->
                      IF s = "A" THEN Some(StationA(Some(2)))
                      ELSE Some(StationB(Some(2)))]
    /\ users = [u \in Users |->
                   IF u = Commander THEN Some(NewLineUser(DEFAULT_THRESHOLD))
                   ELSE None]
    /\ prefs = [p \in Pairs |-> None]
    /\ InitJobs

TextSubscribe == \E site \in Sites : handle_text_message(Commander, site)

SubmitPreferences ==
    \E station_ids \in SUBSET Sites, threshold_value \in FormThresholds :
        /\ PreferencesPost(Commander, station_ids, threshold_value)
        /\ <<users', prefs'>> /= <<users, prefs>>

\* The store accepts the commit, unless the row to update is gone.
AlertCommitted == AlertRecord(TRUE)

NextCommands ==
    \/ Tick
    \/ TextSubscribe
    \/ SubmitPreferences
    \/ AlertStart
    \/ AlertStep
    \/ AlertCommitted
    \/ AlertEnd

SpecCommands == InitCommands /\ [][NextCommands]_vars

\* --------------------------------- properties of the preference commands

\* C8 as claimed - Per-pair cooldown: under any interleaving of alert passes
\* with preference commands, while the AQI stays at or above the threshold,
\* two notifications for the same (recipient, station) pair are never
\* delivered less than COOLDOWN_WINDOW apart.
C8_PairCooldownAsClaimed ==
    (Evaluated /\ alertEv.delivered /\ alertEv.prev.sentAt /= None) =>
        alertEv.at - Val(alertEv.prev.sentAt) >= COOLDOWN_WINDOW

\* C8 - Per-Preference cooldown: under any interleaving of alert passes with
\* preference commands, once the timestamp of a notification is committed to
\* the pair's Preference and as long as that Preference is not deleted
\* (threshold changes keep it), no further notification for the pair is
\* delivered less than COOLDOWN_WINDOW after it.
C8_PreferenceCooldown ==
    (Evaluated /\ alertEv.delivered /\ alertEv.prev.sentAt /= None
               /\ alertEv.prev.kept) =>
        alertEv.at - Val(alertEv.prev.sentAt) >= COOLDOWN_WINDOW

\* A Preference whose threshold a command has changed since its committed
\* notification is evaluated within COOLDOWN_WINDOW and skipped.
C8_Witness ==
    /\ Evaluated
    /\ alertEv.prev.sentAt /= None
    /\ alertEv.prev.kept
    /\ alertEv.prev.edited
    /\ ExceedsThreshold(alertEv.aqi, alertEv.threshold)
    /\ ~alertEv.attempt

\* --------------------------------------------- properties of the ingestion

\* C9 - Idempotent station upsert: a station refresh that follows a committed
\* station refresh on the same provider data leaves the Station Directory as
\* it found it: the same site codes and the same value in every field, the
\* reading fields included.
C9_IdempotentUpsert ==
    (ingestEv.kind = "stations" /\ ingestEv.repeat) =>
        /\ SiteCodes(stations) = SiteCodes(ingestEv.before)
        /\ \A s \in Sites : stations[s] = ingestEv.before[s]

\* The second of two refreshes on a batch with both versions of station A's
\* record is committed, on a directory whose station A has a reading.
C9_Witness ==
    /\ ingestEv.kind = "stations"
    /\ ingestEv.repeat
    /\ ingestEv.dbOk
    /\ ingestEv.resp.kind = "records"
    /\ Len(ingestEv.resp.records) = 2
    /\ ingestEv.resp.records[1] /= ingestEv.resp.records[2]
    /\ \A i \in 1..2 : ingestEv.resp.records[i].siteid = Some("A")
    /\ stations["A"] /= None
    /\ Val(stations["A"]).aqi /= None

\* The site codes the records of a provider answer name.
CodesIn(resp) ==
    {s \in Sites : \E i \in 1..Len(resp.records) :
                        resp.records[i].siteid = Some(s)}

\* C10 - Unmatched readings do not create stations: after a readings run
\* the site codes of the Station Directory are those before the run, and a
\* station that none of the run's records names is unchanged.
C10_UnmatchedReadingsSkipped ==
    ingestEv.kind = "readings" =>
        /\ SiteCodes(stations) = SiteCodes(ingestEv.before)
        /\ \A s \in Sites \ CodesIn(ingestEv.resp) :
                stations[s] = ingestEv.before[s]

\* A committed readings run has updated station A and skipped a record for
\* site B, which is no station's code.
C10_Witness ==
    /\ ingestEv.kind = "readings"
    /\ ingestEv.dbOk
    /\ "B" \in CodesIn(ingestEv.resp)
    /\ ingestEv.before["B"] = None
    /\ stations["B"] = None
    /\ ingestEv.before["A"] /= None
    /\ stations["A"] /= ingestEv.before["A"]

\* The last record of a provider answer that names site s.
LastRecordFor(resp, s) ==
    LET named == {i \in 1..Len(resp.records) : resp.records[i].siteid = Some(s)}
    IN  resp.records[CHOOSE i \in named : \A j \in named : j <= i]

\* A provider number that is present, not empty and an integer literal.
IsNumber(v) == v /= None /\ Val(v) /= <<>> /\ IsIntLiteral(Val(v))

\* What a reading field holds after a record with the provider value v.
NumberOrNull(v) == IF IsNumber(v) THEN Some(IntOf(Val(v))) ELSE None

\* C11 - Defensive field parsing in readings: after a committed readings run
\* every station that a record of the batch names holds the fields of the
\* last such record: each of AQI, PM2.5 and PM10 is the record's number, or
\* null when the record's value is absent, empty or no number; the timestamp
\* is the record's instant, or null when it is not in the expected layout;
\* the status is the record's; a flawed field nulls no other field and keeps
\* no later record of the batch from being stored.
C11_DefensiveFieldParsing ==
    (ingestEv.kind = "readings" /\ ingestEv.dbOk
        /\ ingestEv.resp.kind = "records") =>
        \A s \in CodesIn(ingestEv.resp) \cap SiteCodes(ingestEv.before) :
            LET r   == LastRecordFor(ingestEv.resp, s)
                row == Val(stations[s])
            IN  /\ row.aqi = NumberOrNull(r.aqi)
                /\ row.pm25 = NumberOrNull(r.pm25)
                /\ row.pm10 = NumberOrNull(r.pm10)
                /\ row.status = r.status
                /\ row.publish_time =
                        IF r.publishtime /= None
                           /\ Val(r.publishtime).layout = PUBLISH_TIME_FORMAT
                        THEN Some(Val(r.publishtime).at) ELSE None

\* A committed readings run of two records: the first, for station A, has an
\* empty AQI, a PM2.5 that is no number and a timestamp in another layout;
\* A's AQI, PM2.5 and timestamp, all set before, are null, its status and
\* PM10 are the record's, and the second record is stored in station B.
C11_Witness ==
    /\ ingestEv.kind = "readings"
    /\ ingestEv.dbOk
    /\ ingestEv.resp.kind = "records"
    /\ Len(ingestEv.resp.records) = 2
    /\ ingestEv.resp.records[1].siteid = Some("A")
    /\ ingestEv.resp.records[1].aqi = Some(<<>>)
    /\ ingestEv.resp.records[2].siteid = Some("B")
    /\ ingestEv.before["A"] /= None
    /\ Val(ingestEv.before["A"]).aqi = Some(1)
    /\ Val(ingestEv.before["A"]).publish_time = Some(1)
    /\ ingestEv.before["B"] /= None
    /\ Val(ingestEv.before["B"]).aqi = None
    /\ Val(stations["A"]).aqi = None
    /\ Val(stations["A"]).pm25 = None
    /\ Val(stations["A"]).publish_time = None
    /\ Val(stations["A"]).status = Some("Unhealthy")
    /\ Val(stations["A"]).pm10 = Some(3)
    /\ Val(stations["B"]).aqi = Some(2)
    /\ Val(stations["B"]).pm25 = None

\* ------------------------------------- station refresh on flawed records

\* Metadata records with one flaw each, next to well formed ones for both
\* sites: no site code, no name, no county, a longitude that is no number.
FlawedStationRecords ==
    { StationRecord(Some("A"), Some("Wanhua"), Some("Taipei"),
                    Some(<<"2", "5">>), Some(<<"1", "2", "1">>)),
      StationRecord(Some("B"), Some("Zuoying"), Some("Kaohsiung"),
                    Some(<<"2", "2">>), Some(<<"1", "2", "0">>)),
      StationRecord(None, Some("Zuoying"), Some("Kaohsiung"),
                    Some(<<"2", "2">>), Some(<<"1", "2", "0">>)),
      StationRecord(Some("B"), None, Some("Kaohsiung"),
                    Some(<<"2", "2">>), Some(<<"1", "2", "0">>)),
      StationRecord(Some("B"), Some("Zuoying"), None,
                    Some(<<"2", "2">>), Some(<<"1", "2", "0">>)),
      StationRecord(Some("B"), Some("Zuoying"), Some("Kaohsiung"),
                    Some(<<"2", "2">>), Some(<<"E">>)) }

RefreshFlawedStations ==
    \E resp \in Answers(FlawedStationRecords), dbOk \in BOOLEAN :
        fetch_and_store_all_stations(resp, dbOk)

\* Station refreshes alone, on a fresh database.
SpecStations == InitIngest /\ [][RefreshFlawedStations]_vars

\* A provider coordinate that is absent, empty or an integer literal.
IsCoordinate(v) == v = None \/ Val(v) = <<>> \/ IsIntLiteral(Val(v))

\* A metadata record with a site code, a name, a county and coordinates
\* that are numbers where they are given.
WellFormedStation(r) ==
    /\ TruthyName(r.siteid)
    /\ TruthyName(r.sitename)
    /\ r.county /= None
    /\ IsCoordinate(r.twd97lat)
    /\ IsCoordinate(r.twd97lon)

\* The site codes that a well formed record of a provider answer names.
WellFormedCodes(resp) ==
    {s \in Sites : \E i \in 1..Len(resp.records) :
        resp.records[i].siteid = Some(s) /\ WellFormedStation(resp.records[i])}

\* The last well formed record of a provider answer that names site s.
LastWellFormedFor(resp, s) ==
    LET named == {i \in 1..Len(resp.records) :
                    resp.records[i].siteid = Some(s)
                    /\ WellFormedStation(resp.records[i])}
    IN  resp.records[CHOOSE i \in named : \A j \in named : j <= i]

\* C12 - Malformed station records are skipped one by one: after a station
\* refresh whose commit the store accepts, every site that a well formed
\* record of the batch names is a station with the name and county of the
\* last such record, whatever malformed records the batch holds besides.
C12_MalformedSkippedAsClaimed ==
    (ingestEv.kind = "stations" /\ ingestEv.dbOk
        /\ ingestEv.resp.kind = "records") =>
        \A s \in WellFormedCodes(ingestEv.resp) :
            /\ stations[s] /= None
            /\ Val(stations[s]).name =
                    Val(LastWellFormedFor(ingestEv.resp, s).sitename)
            /\ Val(stations[s]).county =
                    Val(LastWellFormedFor(ingestEv.resp, s).county)

\* ------------------------------------------- atomicity of ingestion runs

\* The site codes of the records of a provider answer that have a site code
\* and a name.
StoredCodes(resp) ==
    {s \in Sites : \E i \in 1..Len(resp.records) :
        resp.records[i].siteid = Some(s) /\ TruthyName(resp.records[i].sitename)}

\* C13 - Batch atomicity: a station refresh or readings run that fails at
\* any point (the request, the processing of a record, the commit) leaves
\* the committed Station Directory as it was before the run; a run that does
\* not fail has stored its whole batch: every site its records name with a
\* site code and a name is a station, and every station its reading records
\* name holds the reading of the last of them.
C13_BatchAtomicity ==
    /\ (ingestEv.kind \in {"stations", "readings"} /\ ingestEv.failed) =>
            stations = ingestEv.before
    /\ (ingestEv.kind = "stations" /\ ~ingestEv.failed) =>
            StoredCodes(ingestEv.resp) \subseteq SiteCodes(stations)
    /\ (ingestEv.kind = "readings" /\ ~ingestEv.failed) =>
            \A s \in CodesIn(ingestEv.resp) \cap SiteCodes(ingestEv.before) :
                Val(stations[s]).status = LastRecordFor(ingestEv.resp, s).status

\* A station refresh on a directory without stations fails on its second
\* record, after a well formed first record for site A, although the store
\* would accept the commit; the directory is still empty.
C13_Witness ==
    /\ ingestEv.kind = "stations"
    /\ ingestEv.failed
    /\ ingestEv.dbOk
    /\ ingestEv.resp.kind = "records"
    /\ Len(ingestEv.resp.records) = 2
    /\ ingestEv.resp.records[1].siteid = Some("A")
    /\ WellFormedStation(ingestEv.resp.records[1])
    /\ ~WellFormedStation(ingestEv.resp.records[2])
    /\ ingestEv.before["A"] = None
    /\ ingestEv.inserted = <<"A">>
    /\ stations["A"] = None

\* The reading snapshot of a station row.
Snapshot(row) ==
    [aqi |-> row.aqi, status |-> row.status, pm25 |-> row.pm25,
     pm10 |-> row.pm10, publish_time |-> row.publish_time]

\* The reading snapshot that one reading record amounts to.
SnapshotOf(record) ==
    [aqi |-> NumberOrNull(record.aqi), status |-> record.status,
     pm25 |-> NumberOrNull(record.pm25), pm10 |-> NumberOrNull(record.pm10),
     publish_time |-> ParsePublishTime(record.publishtime)]

\* C14 - Atomic reading replacement: in the directory a readings run leaves
\* committed, the reading snapshot of every station is either the snapshot the
\* station had before the run, whole, or the snapshot of one single record of
\* the run's batch that names the station, whole.
C14_AtomicReadingReplacement ==
    ingestEv.kind = "readings" =>
        \A s \in SiteCodes(stations) :
            \/ Snapshot(Val(stations[s])) = Snapshot(Val(ingestEv.before[s]))
            \/ \E i \in 1..Len(ingestEv.resp.records) :
                    /\ ingestEv.resp.records[i].siteid = Some(s)
                    /\ Snapshot(Val(stations[s])) =
                            SnapshotOf(ingestEv.resp.records[i])

\* Station A held the snapshot of a record with every field set; a
\* committed run with a record whose AQI, PM2.5 and timestamp are null has
\* replaced all five fields.
C14_Witness ==
    /\ ingestEv.kind = "readings"
    /\ ingestEv.dbOk
    /\ ingestEv.before["A"] /= None
    /\ Snapshot(Val(ingestEv.before["A"])) =
            [aqi |-> Some(1), status |-> Some("Good"), pm25 |-> Some(7),
             pm10 |-> Some(12), publish_time |-> Some(1)]
    /\ Snapshot(Val(stations["A"])) =
            [aqi |-> None, status |-> Some("Unhealthy"), pm25 |-> None,
             pm10 |-> Some(3), publish_time |-> None]

\* The elements of a sequence.
Range(seq) == {seq[i] : i \in 1..Len(seq)}

\* C15 - Site code uniqueness: the rows a station refresh adds have site
\* codes that differ from one another and from those of the stations there
\* before, and the site codes of the directory a committed refresh leaves are
\* those from before and those of the rows added; this holds as well for a
\* batch that names one new site code in two records.
C15_SiteCodeUniqueness ==
    ingestEv.kind = "stations" =>
        /\ \A i, j \in 1..Len(ingestEv.inserted) :
                i /= j => ingestEv.inserted[i] /= ingestEv.inserted[j]
        /\ Range(ingestEv.inserted) \cap SiteCodes(ingestEv.before) = {}
        /\ ~ingestEv.failed =>
                SiteCodes(stations) =
                    SiteCodes(ingestEv.before) \cup Range(ingestEv.inserted)

\* A committed refresh whose batch names the new site code A in two
\* different records has added one row for A, which holds the second record.
C15_Witness ==
    /\ ingestEv.kind = "stations"
    /\ ~ingestEv.failed
    /\ ingestEv.resp.kind = "records"
    /\ Len(ingestEv.resp.records) = 2
    /\ \A i \in 1..2 : ingestEv.resp.records[i].siteid = Some("A")
    /\ ingestEv.resp.records[1] /= ingestEv.resp.records[2]
    /\ ingestEv.before["A"] = None
    /\ ingestEv.inserted = <<"A">>
    /\ stations["A"] /= None
    /\ Val(stations["A"]).name = Val(ingestEv.resp.records[2].sitename)

\* -------------------------------------------------- nearest-station lookup

MaxCandidates == 3

\* Whole-degree coordinates around Taiwan.
Latitudes == {24, 25}

Longitudes == {120, 121}

\* calculate_distance (haversine, R = 6371 km) between two points of the
\* grid, in metres, rounded; the values are in the order of the floats the
\* function returns, and equal exactly where those are equal.
calculate_distance(lat1, lon1, lat2, lon2) ==
    LET dlat == IF lat1 = lat2 THEN 0 ELSE 1
        dlon == IF lon1 = lon2 THEN 0 ELSE 1
    IN  CASE dlat = 0 /\ dlon = 0 -> 0
          [] dlat = 1 /\ dlon = 0 -> 111195
          [] dlat = 0 /\ dlon = 1 -> IF lat1 = 25 THEN 100777 ELSE 101581
          [] OTHER -> 150339

\* A comparison that lets a later station at the same distance win.
CloserOrEqual(distance, min_distance) ==
    min_distance = None \/ distance <= Val(min_distance)

\* distance < min_distance, where min_distance starts as float('inf').
Closer(distance, min_distance) ==
    min_distance = None \/ distance < Val(min_distance)

\* One turn of the loop over the stations: best is nearest_station (the
\* position of the station in the list) and min_distance.
NearestStep(best, i, station, user_lat, user_lon) ==
    IF station.latitude /= None /\ station.longitude /= None
    THEN LET distance == calculate_distance(user_lat, user_lon,
                                            Val(station.latitude),
                                            Val(station.longitude))
         IN  IF Closer(distance, best.min_distance)
             THEN [nearest_station |-> Some(i), min_distance |-> Some(distance)]
             ELSE best
    ELSE best

RECURSIVE NearestFrom(_, _, _, _, _)
NearestFrom(best, i, candidates, user_lat, user_lon) ==
    IF i > Len(candidates) THEN best
    ELSE NearestFrom(NearestStep(best, i, candidates[i], user_lat, user_lon),
                     i + 1, candidates, user_lat, user_lon)

\* The loop of get_nearest_station_aqi_message and of the location push
\* over the stations in the order the query returned them.
nearest_station(user_lat, user_lon, candidates) ==
    NearestFrom([nearest_station |-> None, min_distance |-> None], 1,
                candidates, user_lat, user_lon)

\* The coordinates of a station row: each null or a point of the grid.
CandidateStations ==
    [latitude : {None} \cup {Some(x) : x \in Latitudes},
     longitude : {None} \cup {Some(x) : x \in Longitudes}]

CandidateLists == UNION {[1..n -> CandidateStations] : n \in 0..MaxCandidates}

UserPoints == {[lat |-> 25, lon |-> 121], [lat |-> 24, lon |-> 120]}

\* A location and the stations table, before the lookup.
InitNearest ==
    /\ stations = [s \in Sites |-> None]
    /\ users = [u \in Users |-> None]
    /\ prefs = [p \in Pairs |-> None]
    /\ InitJobState
    /\ InitRegistry
    /\ InitNoRecords
    /\ \E point \in UserPoints, candidates \in CandidateLists :
            lookup = [state |-> "asked", point |-> point,
                      candidates |-> candidates]

\* get_nearest_station_aqi_message on a location whose coordinates are
\* both given.
get_nearest_station_aqi_message ==
    /\ lookup.state = "asked"
    /\ lookup' = [state |-> "answered", point |-> lookup.point,
                  candidates |-> lookup.candidates,
                  result |-> nearest_station(lookup.point.lat, lookup.point.lon,
                                             lookup.candidates)]
    /\ UNCHANGED <<stations, users, prefs, now, alertPc, alertQueue,
                   alertSnap, alertExpired, alertDirty, alertFails, alertEv,
                   hist, ingestEv, lastRefresh, booted, jobRuns, jobHung,
                   schedEv, refreshing, kept>>

SpecNearest == InitNearest /\ [][get_nearest_station_aqi_message]_vars

\* The positions of the stations of the lookup that have both coordinates.
WithCoordinates ==
    {i \in 1..Len(lookup.candidates) :
        /\ lookup.candidates[i].latitude /= None
        /\ lookup.candidates[i].longitude /= None}

\* The distance from the lookup's location to the station at position i.
DistanceTo(i) ==
    calculate_distance(lookup.point.lat, lookup.point.lon,
                       Val(lookup.candidates[i].latitude),
                       Val(lookup.candidates[i].longitude))

\* C16 - Nearest-station selection: the lookup returns no station exactly
\* when no station has both coordinates; otherwise it returns a station that
\* has both coordinates, whose distance no other such station undercuts, and
\* which comes first in the input order among those at that distance, with
\* that distance.
C16_NearestStation ==
    lookup.state = "answered" =>
        /\ lookup.result.nearest_station = None <=> WithCoordinates = {}
        /\ lookup.result.nearest_station /= None =>
              LET i == Val(lookup.result.nearest_station)
              IN  /\ i \in WithCoordinates
                  /\ lookup.result.min_distance = Some(DistanceTo(i))
                  /\ \A j \in WithCoordinates :
                        /\ DistanceTo(i) <= DistanceTo(j)
                        /\ j < i => DistanceTo(j) > DistanceTo(i)

\* A lookup over three stations: the first has no latitude, the second and
\* the third are at the same coordinates, away from the location; the second
\* is returned.
C16_Witness ==
    /\ lookup.state = "answered"
    /\ Len(lookup.candidates) = 3
    /\ lookup.candidates[1].latitude = None
    /\ lookup.candidates[1].longitude /= None
    /\ 2 \in WithCoordinates
    /\ lookup.candidates[3] = lookup.candidates[2]
    /\ DistanceTo(2) > 0
    /\ lookup.result.nearest_station = Some(2)

\* ---------------------------------------------------------- the scheduler

\* max_instances of SCHEDULER_JOB_DEFAULTS doubled.
max_instances_doubled == 1 + 1

\* SCHEDULER_JOB_DEFAULTS['max_instances']: how many invocations of one job
\* the scheduler lets run at a time; a fire time that finds as many running
\* is skipped.
max_instances == 1

\* The functions of the repository that the body of a job calls.
JobCalls(job) ==
    CASE job = "fetch_aqi_data_job" -> {"fetch_and_store_realtime_aqi"}
      [] job = "send_personalized_aqi_push_job" ->
            {"calculate_distance", "send_line_message"}
      [] job = "send_personalized_aqi_alerts" -> {"send_line_message"}

\* The functions init_db calls when the stations table is empty.
InitDbCalls == {"fetch_and_store_all_stations", "fetch_and_store_realtime_aqi"}

\* The blocking call to another system that an invocation of a job comes
\* to.  The location push reaches none: its query names LineUser columns
\* that models.LineUser does not have, and raises.
ExternalCall(job) ==
    CASE job = "fetch_aqi_data_job" -> "requests.get"
      [] job = "send_personalized_aqi_push_job" -> "none"
      [] job = "send_personalized_aqi_alerts" -> "push_message"

\* A provider request that gives up after a deadline.
HasTimeoutAlways(call) == TRUE

\* The call is made with a timeout: requests.get(api_url) is passed none and
\* waits without limit; push_message goes through the LineBotApi client,
\* whose requests carry the client's timeout.
HasTimeout(call) == call = "push_message"

\* How an invocation of a job can end: by returning, or by an exception that
\* leaves the job function.  fetch_and_store_realtime_aqi catches what it
\* raises; the alert job has no handler around its commit; the location push
\* raises in its query.
Endings(job) ==
    CASE job = "fetch_aqi_data_job" -> {"returned"}
      [] job = "send_personalized_aqi_push_job" -> {"raised"}
      [] job = "send_personalized_aqi_alerts" -> {"returned", "raised"}

\* What the peer of an external call does.
PeerAnswers == {"answers", "fails", "silent"}

\* The variables the scheduler's steps leave alone, the stations apart.
IdleTables ==
    UNCHANGED <<users, prefs, now, alertPc, alertQueue, alertSnap,
                alertExpired, alertDirty, alertFails, alertEv, hist,
                ingestEv, lastRefresh, lookup, kept>>

\* init_db, run once when the module is loaded, after scheduler.start():
\* it leaves a table that has a station alone and fills an empty stations
\* table from both endpoints.  This step goes as far as the reading fill's
\* writes: fetch_and_store_all_stations has run and
\* fetch_and_store_realtime_aqi, called by init_db itself and not through
\* the scheduler, has written the provider's records and not committed.
init_db(stationsResp, readingsResp, dbOk) ==
    /\ ~booted
    /\ refreshing = None
    /\ LET empty == SiteCodes(stations) = {}
       IN  /\ stations' = IF empty
                          THEN StationsAfterRefresh(stations, stationsResp, dbOk)
                          ELSE stations
           /\ refreshing' = IF empty THEN Some(readingsResp) ELSE None
           /\ booted' = ~empty
           /\ schedEv' = [kind |-> "init_db", job |-> "init_db",
                          calls |-> IF empty THEN InitDbCalls ELSE {}]
    /\ IdleTables
    /\ UNCHANGED <<jobRuns, jobHung>>

\* The rest of init_db: its reading fill commits, or rolls back, and init_db
\* returns.
init_db_filled(dbOk) ==
    /\ ~booted
    /\ refreshing /= None
    /\ stations' = StationsAfterReadings(stations, Val(refreshing), dbOk)
    /\ refreshing' = None
    /\ booted' = TRUE
    /\ schedEv' = [kind |-> "filled", job |-> "init_db", calls |-> {}]
    /\ IdleTables
    /\ UNCHANGED <<jobRuns, jobHung>>

\* A fire time of a job arrives: the scheduler starts an invocation, or
\* skips the fire time when max_instances invocations of the job run.
Fire(job) ==
    /\ IF jobRuns[job] < max_instances
       THEN /\ jobRuns' = [jobRuns EXCEPT ![job] = @ + 1]
            /\ schedEv' = [kind |-> "started", job |-> job,
                           calls |-> JobCalls(job)]
       ELSE /\ jobRuns' = jobRuns
            /\ schedEv' = [kind |-> "skipped", job |-> job, calls |-> {}]
    /\ stations' = stations
    /\ IdleTables
    /\ UNCHANGED <<booted, jobHung, refreshing>>

\* A running invocation makes its external call.  A silent peer makes a
\* call with a timeout raise, which the caller catches, and keeps a call
\* without one waiting for good.  What the provider answers to the reading
\* refresh is stored.
Call(job, peer, resp) ==
    /\ ExternalCall(job) /= "none"
    /\ jobRuns[job] > jobHung[job]
    /\ LET hangs == peer = "silent" /\ ~HasTimeout(ExternalCall(job))
       IN  /\ jobHung' = IF hangs THEN [jobHung EXCEPT ![job] = @ + 1]
                         ELSE jobHung
           /\ schedEv' = [kind |-> IF hangs THEN "hung" ELSE "called",
                          job |-> job, calls |-> {}, peer |-> peer]
    /\ stations' = IF job = "fetch_aqi_data_job"
                   THEN StationsAfterReadings(stations,
                            IF peer = "answers" THEN resp
                            ELSE [kind |-> "error", records |-> <<>>], TRUE)
                   ELSE stations
    /\ IdleTables
    /\ UNCHANGED <<booted, jobRuns, refreshing>>

\* The users the location push attempts a delivery to.  Its query filters
\* on is_subscribed and on LineUser.user_latitude and user_longitude, which
\* models.LineUser does not define: building the query raises and the
\* invocation ends before it has selected a user.
push_recipients(us) == {}

\* A running invocation that waits for nothing ends.
Finish(job, ending) ==
    /\ jobRuns[job] > jobHung[job]
    /\ ending \in Endings(job)
    /\ jobRuns' = [jobRuns EXCEPT ![job] = @ - 1]
    /\ schedEv' = [kind |-> "ended", job |-> job, calls |-> {},
                   ending |-> ending,
                   pushed |-> IF job = "send_personalized_aqi_push_job"
                              THEN push_recipients(users) ELSE {}]
    /\ stations' = stations
    /\ IdleTables
    /\ UNCHANGED <<booted, jobHung, refreshing>>

\* What both endpoints answer at start-up.
BootStations ==
    {[kind |-> "error", records |-> <<>>],
     [kind |-> "records", records |->
        <<StationRecord(Some("A"), Some("Wanhua"), Some("Taipei"),
                        Some(<<"2", "5">>), Some(<<"1", "2", "1">>))>>]}

Boot ==
    \/ \E stationsResp \in BootStations, readingsResp \in AlertFeed,
          dbOk \in BOOLEAN : init_db(stationsResp, readingsResp, dbOk)
    \/ \E dbOk \in BOOLEAN : init_db_filled(dbOk)

FireTime == \E job \in JobIds : Fire(job)

JobCall == \E job \in JobIds, peer \in PeerAnswers, resp \in AlertFeed :
                Call(job, peer, resp)

JobEnd == \E job \in JobIds, ending \in {"returned", "raised"} :
                Finish(job, ending)

NextScheduler == Boot \/ FireTime \/ JobCall \/ JobEnd

\* The process from its start on a fresh database.  The cron triggers keep
\* arriving, init_db runs, and an invocation that waits for nothing ends.
SpecScheduler ==
    /\ InitIngest
    /\ [][NextScheduler]_vars
    /\ WF_vars(Boot)
    /\ \A job \in JobIds : WF_vars(Fire(job))
    /\ WF_vars(JobEnd)

\* C17 - Single-flight per job id: no job has two invocations running at a
\* time, and a fire time that arrives while an invocation of its job runs
\* starts nothing and leaves nothing behind to run later: the invocation
\* that runs is the only one, and when it has ended none runs.
C17_SingleFlight ==
    /\ \A job \in JobIds : jobRuns[job] <= 1
    /\ schedEv.kind = "skipped" => jobRuns[schedEv.job] = 1
    /\ schedEv.kind = "ended" => jobRuns[schedEv.job] = 0

\* A fire time of the reading refresh is skipped while an invocation of it
\* waits for the provider, and the alert job runs at the same time.
C17_Witness ==
    /\ schedEv.kind = "skipped"
    /\ schedEv.job = "fetch_aqi_data_job"
    /\ jobRuns["fetch_aqi_data_job"] = 1
    /\ jobRuns["send_personalized_aqi_alerts"] = 1

\* The step taken last has invoked the station refresh.
StationRefreshInvoked ==
    /\ schedEv.kind \in {"init_db", "started"}
    /\ "fetch_and_store_all_stations" \in schedEv.calls

\* C18 - Station refresh is a scheduled job: the station refresh is invoked
\* again and again for as long as the program runs, at the fire times of a
\* job of its own, not only by init_db at start-up.
C18_StationRefreshRecursAsClaimed == []<>StationRefreshInvoked

\* An exception has left the alert job: db.session.commit() raised after a
\* delivery, and the job has no handler around it.
AlertJobRaised == Recorded /\ ~alertEv.ok

\* C19 - Job failure isolation: an error raised inside an invocation of a
\* scheduled job, such as a failure to commit last_alert_sent_at, is caught
\* and logged at the boundary of the job: no exception leaves the job
\* function.
C19_ErrorsCaughtAtJobBoundaryAsClaimed == ~AlertJobRaised

\* C20 - Bounded external calls: every invocation of a job ends even when
\* the provider or the transport never answers: no invocation waits in an
\* external call that has no deadline for an answer that does not come.
C20_BoundedExternalCallsAsClaimed == \A job \in JobIds : jobHung[job] = 0

\* ------------------------------------------- the subscription store's commands

\* The texts the preferences form may carry in its threshold field: none,
\* one that is no integer, and integers.
FormTexts == {None, Some(<<"x">>), Some(<<"0">>), Some(<<"1">>)}

\* request.form.get('threshold', type=int, default=100): the field's integer,
\* the default where the field is missing or int() rejects it.
FormThresholdOf(text) ==
    IF text /= None /\ IsIntLiteral(Val(text)) THEN IntOf(Val(text))
    ELSE DEFAULT_THRESHOLD

\* A station id the form may carry that is no station's.
UnknownSite == "Z"

\* handle_location_message: the coordinates are assigned to attributes that
\* are no column of line_users, so the commit writes nothing; for an unknown
\* user the constructor rejects them and the transaction is rolled back.
handle_location_message(u) ==
    /\ hist' = hist
    /\ IdleAlert
    /\ UNCHANGED <<stations, users, prefs, now>>
    /\ Logged("location", u, None)

\* Both users have logged in and follow station A; an alert pass that is
\* over has notified the Commander at the time the run starts at, and the
\* other user has subscribed since.  The commands are logged.
InitStore ==
    /\ stations = [s \in Sites |->
                      IF s = "A" THEN Some(StationA(Some(2)))
                      ELSE Some(StationB(Some(2)))]
    /\ users = [u \in Users |-> Some(NewLineUser(DEFAULT_THRESHOLD))]
    /\ prefs = [p \in Pairs |->
                   IF p = <<Commander, "A">>
                   THEN Some([NewPreference(DEFAULT_THRESHOLD) EXCEPT
                                !.last_alert_sent_at = Some(0)])
                   ELSE IF p[2] = "A" THEN Some(NewPreference(1))
                   ELSE None]
    /\ now = 0
    /\ alertPc = "idle"
    /\ alertQueue = <<>>
    /\ alertSnap = NoSnap
    /\ alertExpired = FALSE
    /\ alertDirty = NoDirty
    /\ alertFails = {}
    /\ alertEv = NoEv
    /\ hist = [p \in Pairs |->
                  IF p = <<Commander, "A">>
                  THEN [PassOver([q \in Pairs |-> Notified(0)])[p]
                            EXCEPT !.kept = TRUE]
                  ELSE NoHist]
    /\ ingestEv = NoEv
    /\ lastRefresh = None
    /\ InitRegistry
    /\ lookup = NoLookup
    /\ InitRecords

SubmitForm ==
    \E station_ids \in SUBSET (Sites \cup {UnknownSite}), text \in FormTexts :
        PreferencesPost(Commander, station_ids, FormThresholdOf(text))

LocationMessage == \E u \in Users : handle_location_message(u)

NextStore ==
    \/ SubmitForm
    \/ TextSubscribe
    \/ Follow
    \/ Unfollow
    \/ LocationMessage

SpecStore == InitStore /\ [][NextStore]_vars

\* C21: every stored Preference has a threshold_value greater than 0, whatever
\* preference commands (the form with any integer threshold, the text command
\* copying the user's default threshold) have been handled.
C21_PositiveThresholdsAsClaimed ==
    \A p \in Pairs : prefs[p] /= None => Val(prefs[p]).threshold_value > 0

\* ------------------------------------------- who writes the Station Directory

\* Station A is known and has a reading, station B is not known; the
\* Commander has logged in.
InitWriters ==
    /\ stations = [s \in Sites |->
                      IF s = "A" THEN Some(StationA(Some(2))) ELSE None]
    /\ users = [u \in Users |->
                   IF u = Commander THEN Some(NewLineUser(DEFAULT_THRESHOLD))
                   ELSE None]
    /\ prefs = [p \in Pairs |-> None]
    /\ InitJobs

\* The location push: it is fired, and it ends in its query.
PushRun ==
    \/ Fire("send_personalized_aqi_push_job")
    \/ Finish("send_personalized_aqi_push_job", "raised")

\* Every handler and job that works on the tables, the ingestion included.
NextWriters ==
    \/ SubmitPreferences
    \/ TextSubscribe
    \/ Follow
    \/ Unfollow
    \/ LocationMessage
    \/ FeedReadings
    \/ PushRun
    \/ AlertStart
    \/ AlertStep
    \/ AlertCommit
    \/ AlertEnd

SpecWriters == InitWriters /\ [][NextWriters]_vars

\* A step of the ingestion: a reading refresh or a station refresh.
IngestionStep ==
    \/ \E resp \in AlertFeed, dbOk, log \in BOOLEAN :
            fetch_and_store_realtime_aqi(resp, dbOk, log)
    \/ \E resp \in BootStations, dbOk \in BOOLEAN :
            fetch_and_store_all_stations(resp, dbOk)

\* C22 - Station Directory single writer: a step that adds or removes a
\* Station or changes any field of one is a step of the reading refresh or of
\* the station refresh; the alert pass, follow and unfollow, text and
\* location messages and the preferences form leave every Station as it was.
C22_SingleWriter == [][stations' /= stations => IngestionStep]_vars

\* The alert pass has delivered and recorded a notification and the user has
\* Preferences, while the reading refresh has changed the station since the
\* start.
C22_Witness ==
    /\ Recorded
    /\ alertEv.ok
    /\ stations["A"] /= Some(StationA(Some(2)))
    /\ \E s \in Sites : prefs[<<Commander, s>>] /= None

\* ------------------------------------------------------- inactive recipients

\* Station A has a reading that every threshold is reached by; both users
\* have logged in and follow A.  The inactive users are recorded.
InitActive ==
    /\ stations = [s \in Sites |->
                      IF s = "A" THEN Some(StationA(Some(2))) ELSE None]
    /\ Subscribed([u \in Users |-> DEFAULT_THRESHOLD])
    /\ InitJobState
    /\ InitRegistry
    /\ lookup = NoLookup
    /\ InitRecords

NextActive ==
    \/ Follow
    \/ Unfollow
    \/ LocationMessage
    \/ PushRun
    \/ AlertStart
    \/ AlertStep
    \/ AlertCommitted
    \/ AlertEnd

SpecActive == InitActive /\ [][NextActive]_vars

\* The user was inactive when the running alert pass selected its work.
InactiveAtStart(u) == u \in Val(passInactive)

\* C23 - Inactive recipients are not notified: the alert pass attempts no
\* delivery to a user whose is_subscribed was false when the pass's query
\* ran, so a pass that starts after an unfollow sends that user nothing; and
\* a run of the location push delivers to no user that is inactive.
C23_InactiveNotNotified ==
    /\ Evaluated /\ alertEv.attempt => ~InactiveAtStart(alertEv.pair[1])
    /\ schedEv.kind = "ended" =>
            \A u \in schedEv.pushed :
                users[u] /= None /\ Val(users[u]).is_subscribed

\* A pass that started while u2 was inactive and u1 active notifies u1, who
\* has unfollowed since the pass started; u2 has a Preference that the
\* reading reaches and has never been notified.
C23_Witness ==
    /\ Evaluated
    /\ alertEv.delivered
    /\ alertEv.pair = <<"u1", "A">>
    /\ ~Val(users["u1"]).is_subscribed
    /\ InactiveAtStart("u2")
    /\ prefs[<<"u2", "A">>] /= None
    /\ Val(prefs[<<"u2", "A">>]).last_alert_sent_at = None
    /\ ExceedsThreshold(Val(stations["A"]).aqi,
                        Val(prefs[<<"u2", "A">>]).threshold_value)

\* The last command handled was u's location message, which the handler has
\* logged as u's updated location.
LocationSent(u) ==
    /\ Val(cmdEv).kind = "location"
    /\ Val(cmdEv).user = u

\* C24 - Location push coverage: when a run of the location push has ended,
\* a delivery was attempted to every active user whose location is known,
\* as long as a station with both coordinates exists.
C24_LocationPushCoverageAsClaimed ==
    \A u \in Users :
        /\ schedEv.kind = "ended"
        /\ schedEv.job = "send_personalized_aqi_push_job"
        /\ LocationSent(u)
        /\ users[u] /= None
        /\ Val(users[u]).is_subscribed
        /\ \E s \in Sites : /\ stations[s] /= None
                            /\ Val(stations[s]).latitude /= None
                            /\ Val(stations[s]).longitude /= None
        => u \in schedEv.pushed

\* The preferences form has just been handled for user u.
FormHandled == Val(cmdEv).kind = "preferences"

\* C25 - Unsubscribe-all frame: after the form is submitted with no station
\* selected the user has no Preference; the Preferences of every other user,
\* every Station and every LineUser, the submitting one with its
\* is_subscribed and default_threshold included, are as they were.
C25_UnsubscribeAllFrame ==
    FormHandled /\ Val(cmdEv).arg.station_ids = {} =>
        LET ev == Val(cmdEv)
        IN  /\ \A p \in Pairs :
                    ev.after.prefs[p] =
                        IF p[1] = ev.user THEN None ELSE ev.before.prefs[p]
            /\ ev.after.stations = ev.before.stations
            /\ ev.after.users = ev.before.users

\* An inactive user who followed both stations, with a default threshold
\* other than the form's, has submitted the empty form, while the other user
\* has a Preference.
C25_Witness ==
    /\ FormHandled
    /\ Val(cmdEv).arg.station_ids = {}
    /\ LET ev == Val(cmdEv)
       IN  /\ \A s \in Sites : ev.before.prefs[<<ev.user, s>>] /= None
           /\ \E p \in Pairs : p[1] /= ev.user /\ ev.before.prefs[p] /= None
           /\ ~Val(ev.before.users[ev.user]).is_subscribed
           /\ Val(ev.before.users[ev.user]).default_threshold
                    /= ev.arg.threshold_value

\* ------------------------------- the alert pass beside a refresh in progress

\* fetch_and_store_realtime_aqi up to its commit: the provider's records are
\* written to the rows of the function's session, where no other session
\* sees them.
ReadingsWritten(resp) ==
    /\ refreshing = None
    /\ resp.kind = "records"
    /\ refreshing' = Some(resp)
    /\ UNCHANGED <<stations, users, prefs, now, alertPc, alertQueue,
                   alertSnap, alertExpired, alertDirty, alertFails, alertEv,
                   hist, ingestEv, lastRefresh, booted, jobRuns, jobHung,
                   schedEv, lookup, kept>>

\* The end of the same run: db.session.commit(), or db.session.rollback()
\* when the commit raises.
ReadingsEnded(dbOk) ==
    /\ refreshing /= None
    /\ fetch_and_store_realtime_aqi(Val(refreshing), dbOk, TRUE)

\* Station A has a reading below every threshold; both users have logged in
\* and follow A.
InitRace ==
    /\ stations = [s \in Sites |->
                      IF s = "A" THEN Some(StationA(Some(1))) ELSE None]
    /\ Subscribed([u \in Users |-> DEFAULT_THRESHOLD])
    /\ InitJobs

ReadingsWrite == \E resp \in AlertFeed : ReadingsWritten(resp)

ReadingsEnd == \E dbOk \in BOOLEAN : ReadingsEnded(dbOk)

NextRace ==
    \/ ReadingsWrite
    \/ ReadingsEnd
    \/ AlertStart
    \/ AlertStep
    \/ AlertCommitted
    \/ AlertEnd

SpecRace == InitRace /\ [][NextRace]_vars

\* The reading of site that a refresh in progress has written and not
\* committed.
UncommittedAqi(site) ==
    Val(StoreReadingRecords(stations, Val(refreshing).records)[site]).aqi

\* C26 - The alert pass tolerates a concurrent reading refresh: a delivery
\* is attempted only for a Preference whose station has, at the moment of the
\* evaluation, a committed reading that reaches the threshold; the value the
\* pass decides on is that committed reading, never one that a refresh has
\* written and not committed or has rolled back.
C26_DecidesOnCommittedReading ==
    Evaluated /\ alertEv.attempt =>
        /\ alertEv.aqi = Val(stations[alertEv.pair[2]]).aqi
        /\ ExceedsThreshold(Val(stations[alertEv.pair[2]]).aqi,
                            alertEv.threshold)

\* A delivery made while a refresh is in progress that has written a reading
\* below the threshold and has not committed it.
C26_Witness ==
    /\ Evaluated
    /\ alertEv.delivered
    /\ refreshing /= None
    /\ ~ExceedsThreshold(UncommittedAqi(alertEv.pair[2]), alertEv.threshold)

\* C27 - The reading refresh never overlaps itself: no invocation of
\* fetch_aqi_data_job runs while the reading fill that init_db makes at
\* start-up, after the scheduler has been started, is in progress.
C27_NoRefreshOverlapAsClaimed ==
    ~(/\ ~booted
      /\ refreshing /= None
      /\ jobRuns["fetch_aqi_data_job"] > 0)

\* A step of the alert pass: its query, an iteration up to the delivery, the
\* timestamp and its commit, or the end of the loop.
AlertPassStep == AlertStart \/ AlertStep \/ AlertCommit \/ AlertEnd

\* The pass has just delivered the notification of Preference p.
DeliveredInPass(p) == alertPc = "sent" /\ Head(alertQueue) = p

\* C28 - Alert pass frame: a step of the alert pass changes no Station and no
\* LineUser, adds and removes no Preference and changes no threshold_value;
\* all it changes in the tables is last_alert_sent_at, set to the time of
\* the step, of a Preference whose notification the pass has just delivered.
C28_AlertPassFrame ==
    [][AlertPassStep =>
            /\ stations' = stations
            /\ users' = users
            /\ \A p \in Pairs :
                    prefs'[p] /= prefs[p] =>
                        /\ DeliveredInPass(p)
                        /\ prefs[p] /= None
                        /\ prefs'[p] = Some([Val(prefs[p]) EXCEPT
                                        !.last_alert_sent_at = Some(now)])]_vars

\* The pass has recorded the delivery for a Preference that the user has
\* changed between the delivery and the commit, while the user has another
\* Preference, which has no timestamp.
C28_Witness ==
    /\ Recorded
    /\ alertEv.ok
    /\ prefs /= alertEv.before
    /\ hist[alertEv.pair].edited
    /\ \E p \in Pairs : /\ p /= alertEv.pair
                        /\ prefs[p] /= None
                        /\ Val(prefs[p]).last_alert_sent_at = None

\* The form was submitted with a selection, every selected id is a
\* station's, and the second commit went through.
FormSucceeded ==
    /\ FormHandled
    /\ Val(cmdEv).arg.station_ids /= {}
    /\ Val(cmdEv).arg.station_ids \subseteq SiteCodes(Val(cmdEv).before.stations)

\* C29 - A threshold update keeps the cooldown state: when the form selects
\* a station the user already follows, the Preference keeps its
\* last_alert_sent_at, and after a successful submission it differs from
\* what it was in its threshold_value alone, which is the submitted one.
C29_ThresholdUpdateKeepsCooldown ==
    FormHandled =>
        LET ev == Val(cmdEv)
        IN  \A s \in ev.arg.station_ids \cap Sites :
                LET old == ev.before.prefs[<<ev.user, s>>]
                    new == ev.after.prefs[<<ev.user, s>>]
                IN  old /= None =>
                        /\ new /= None
                        /\ Val(new).last_alert_sent_at
                                = Val(old).last_alert_sent_at
                        /\ FormSucceeded =>
                                new = Some([Val(old) EXCEPT !.threshold_value
                                                = ev.arg.threshold_value])

\* A successful submission has selected again a station whose Preference
\* has a timestamp, with a threshold other than the one it had.
C29_Witness ==
    /\ FormSucceeded
    /\ LET ev == Val(cmdEv)
       IN  \E s \in ev.arg.station_ids \cap Sites :
                LET old == ev.before.prefs[<<ev.user, s>>]
                IN  /\ old /= None
                    /\ Val(old).last_alert_sent_at /= None
                    /\ Val(old).threshold_value /= ev.arg.threshold_value

\* C30 - Preference set replacement: after a successful submission of the
\* form with the non-empty selection S of station ids and the threshold t,
\* the stations the user has a Preference for are exactly those of S, each
\* of these Preferences has threshold_value t, and the Preferences of every
\* other user are as they were.  The table is keyed by the pair of user and
\* station, so no station is listed twice.
C30_SetReplacement ==
    FormSucceeded =>
        LET ev == Val(cmdEv)
        IN  /\ {s \in Sites : ev.after.prefs[<<ev.user, s>>] /= None}
                    = ev.arg.station_ids
            /\ \A s \in ev.arg.station_ids :
                    Val(ev.after.prefs[<<ev.user, s>>]).threshold_value
                        = ev.arg.threshold_value
            /\ \A p \in Pairs :
                    p[1] /= ev.user => ev.after.prefs[p] = ev.before.prefs[p]

\* A successful submission has dropped one station, added another and given
\* the new Preference a threshold other than the user's earlier ones, while
\* the other user has a Preference with yet another threshold.
C30_Witness ==
    /\ FormSucceeded
    /\ LET ev == Val(cmdEv)
       IN  /\ \E s \in Sites : /\ ev.before.prefs[<<ev.user, s>>] /= None
                               /\ s \notin ev.arg.station_ids
           /\ \E s \in ev.arg.station_ids :
                    ev.before.prefs[<<ev.user, s>>] = None
           /\ \E p \in Pairs :
                    /\ p[1] /= ev.user
                    /\ ev.before.prefs[p] /= None
                    /\ Val(ev.before.prefs[p]).threshold_value
                            /= ev.arg.threshold_value

\* --------------------------------------- the two refreshes on a followed station

\* Station A is known and has a reading, station B is not known; both users
\* follow A.
InitRefresh ==
    /\ stations = [s \in Sites |->
                      IF s = "A" THEN Some(StationA(Some(2))) ELSE None]
    /\ Subscribed([u \in Users |-> DEFAULT_THRESHOLD])
    /\ InitJobs

SpecRefresh == InitRefresh /\ [][NextIngest]_vars

\* What the station refresh writes of a row.
Metadata(row) ==
    [name |-> row.name, county |-> row.county, latitude |-> row.latitude,
     longitude |-> row.longitude, region |-> row.region]

\* C31 - The station refresh leaves readings alone: a station refresh leaves
\* the reading (aqi, status, pm25, pm10, publish_time) of every station that
\* existed as it was, and every Preference; a reading refresh leaves the
\* name, county, coordinates and region of every station as they were.
C31_RefreshesKeepApart ==
    [][/\ ingestEv'.kind = "stations" =>
            /\ prefs' = prefs
            /\ \A s \in SiteCodes(stations) :
                    /\ stations'[s] /= None
                    /\ Snapshot(Val(stations'[s])) = Snapshot(Val(stations[s]))
       /\ ingestEv'.kind = "readings" =>
            \A s \in SiteCodes(stations) :
                    /\ stations'[s] /= None
                    /\ Metadata(Val(stations'[s])) = Metadata(Val(stations[s]))
      ]_vars

\* A station refresh has changed the name of a station that had a reading
\* and is followed, after a reading refresh had changed that reading.
C31_Witness ==
    /\ ingestEv.kind = "stations"
    /\ ingestEv.before["A"] /= None
    /\ Val(ingestEv.before["A"]).aqi \notin {None, Some(2)}
    /\ Val(stations["A"]).name /= Val(ingestEv.before["A"]).name
    /\ prefs[<<"u1", "A">>] /= None

\* ------------------------------------------------ who sets is_subscribed

\* What the form may carry as station_ids: the id of station A, an id that is
\* no station's, and an entry that is no number.
FormEntries == {<<"1">>, <<"9">>, <<"x">>}

\* The station a Station.id is the id of.
StationOfId(id) ==
    IF id = 1 THEN "A" ELSE IF id = 2 THEN "B" ELSE UnknownSite

\* station_ids = [int(sid) for sid in selected_station_ids if sid.isdigit()]
SelectedStationIds(selected) ==
    {StationOfId(IntOf(sid)) : sid \in {e \in selected : AllDigits(e)}}

\* The handler with the LineUser written before the selection is looked at:
\* a selection that holds no id still makes the user active.
PreferencesFormUnchecked(u, selected, threshold_value) ==
    IF selected /= {} /\ SelectedStationIds(selected) = {}
    THEN /\ users[u] /= None
         /\ users' = [users EXCEPT ![u] =
                        Some([Val(users[u]) EXCEPT !.is_subscribed = TRUE])]
         /\ hist' = hist
         /\ IdleAlert
         /\ UNCHANGED <<stations, prefs, now>>
         /\ Logged("preferences", u, [station_ids |-> {},
                                      threshold_value |-> threshold_value])
    ELSE PreferencesPost(u, SelectedStationIds(selected), threshold_value)

\* preferences(), POST, from the form's entries: entries that are no number
\* are dropped; a selection that is not empty and holds no id is answered
\* with an error and nothing is written.
PreferencesForm(u, selected, threshold_value) ==
    IF selected /= {} /\ SelectedStationIds(selected) = {}
    THEN /\ users[u] /= None
         /\ UNCHANGED vars
    ELSE PreferencesPost(u, SelectedStationIds(selected), threshold_value)

\* Station A is known and has a reading, station B is not known; the
\* Commander has logged in and follows A, the other user has not been seen.
\* The commands are logged.
InitFlags ==
    /\ stations = [s \in Sites |->
                      IF s = "A" THEN Some(StationA(Some(2))) ELSE None]
    /\ users = [u \in Users |->
                   IF u = Commander THEN Some(NewLineUser(DEFAULT_THRESHOLD))
                   ELSE None]
    /\ prefs = [p \in Pairs |->
                   IF p = <<Commander, "A">>
                   THEN Some(NewPreference(DEFAULT_THRESHOLD))
                   ELSE None]
    /\ InitJobState
    /\ InitRegistry
    /\ lookup = NoLookup
    /\ cmdEv = Some(NoEv)
    /\ passInactive = None

SubmitSelection ==
    \E selected \in SUBSET FormEntries :
        PreferencesForm(Commander, selected, DEFAULT_THRESHOLD)

\* Every handler and job that works on the tables.
NextFlags ==
    \/ SubmitSelection
    \/ TextSubscribe
    \/ Follow
    \/ Unfollow
    \/ LocationMessage
    \/ FeedReadings
    \/ PushRun
    \/ AlertStart
    \/ AlertStep
    \/ AlertCommitted
    \/ AlertEnd

SpecFlags == InitFlags /\ [][NextFlags]_vars

\* The step is the command of this kind by user u.
ByCommand(kind, u) ==
    /\ cmdEv' /= cmdEv
    /\ Val(cmdEv').kind = kind
    /\ Val(cmdEv').user = u
    /\ Val(cmdEv').before = Tables
    /\ Val(cmdEv').after = Tables'

\* C32 - Active-flag transitions: in every step every existing LineUser
\* stays in the table; its is_subscribed goes from true to false only in an
\* unfollow event of that user, and from false to true only in a follow event
\* of that user or in a preferences submission of that user that holds at
\* least one station id.  So the reading refresh, the alert pass, the
\* location push, text commands and location messages leave the flag of
\* every existing user as it was.
C32_ActiveFlagTransitions ==
    [][\A u \in Users :
           users[u] /= None =>
              /\ users'[u] /= None
              /\ (Val(users[u]).is_subscribed /\ ~Val(users'[u]).is_subscribed)
                    => ByCommand("unfollow", u)
              /\ (~Val(users[u]).is_subscribed /\ Val(users'[u]).is_subscribed)
                    => \/ ByCommand("follow", u)
                       \/ /\ ByCommand("preferences", u)
                          /\ Val(cmdEv').arg.station_ids /= {}
      ]_vars

\* The Commander, who had unfollowed, has become active again by a
\* submission that selects station A; the other user, whom a follow event
\* has created, has unfollowed since and is still in the table; the location
\* push has been fired.
C32_Witness ==
    /\ cmdEv /= None
    /\ Val(cmdEv).kind = "preferences"
    /\ Val(cmdEv).arg.station_ids = {"A"}
    /\ ~Val(Val(cmdEv).before.users[Commander]).is_subscribed
    /\ Val(users[Commander]).is_subscribed
    /\ Val(cmdEv).after = Tables
    /\ users["u2"] /= None
    /\ ~Val(users["u2"]).is_subscribed
    /\ jobRuns["send_personalized_aqi_push_job"] > 0

====
